---- MODULE Spec2Model ----
(***************************************************************************)
(* A model of the ctmdp library: finite labelled probabilistic transition *)
(* systems, their relabeling, simulation and morphisms (mdp.py), their    *)
(* products (products.py, box_product.py), the automaton product          *)
(* (twisted.py), the bisimulation quotient (quotient.py) and the search   *)
(* for a generalization (metric.py).  The library is single threaded; the *)
(* state machine is a session that holds a store of model objects and     *)
(* applies one library call, or one step of a call's loop, per step.  A   *)
(* Python exception is an outcome of a call, recorded in the call record. *)
(***************************************************************************)
EXTENDS Integers, Sequences, FiniteSets, TLC

VARIABLES heap, calls

vars == <<heap, calls>>

(***************************************************************************)
(* Bounds of the model.                                                    *)
(***************************************************************************)
\* Largest chain / cycle built by path_mdp and cycle_mdp.
MaxN == 3
\* Library calls per session.
MaxCalls == 2

(***************************************************************************)
(* Python values.                                                          *)
(***************************************************************************)
\* A state label: an atomic label (an int) or a tuple of labels.
Atom(i) == [tag |-> "atom", a |-> i, k |-> <<>>]
Tuple(s) == [tag |-> "tuple", a |-> 0, k |-> s]

\* A weight: an exact rational <<numerator, denominator>>, denominator > 0,
\* in lowest terms (Python ints and the dyadic floats true division gives).
RECURSIVE GCD(_, _)
GCD(m, n) == IF n = 0 THEN (IF m < 0 THEN -m ELSE m) ELSE GCD(n, m % n)
Rat(n, d) == LET g == GCD(n, d) IN IF g = 0 THEN <<0, 1>> ELSE <<n \div g, d \div g>>
W(n) == <<n, 1>>
RAdd(x, y) ==
  LET g == GCD(x[2], y[2])
  IN Rat(x[1] * (y[2] \div g) + y[1] * (x[2] \div g), (x[2] \div g) * y[2])
RHalf(x) == Rat(x[1], 2 * x[2])
RPos(x) == x[1] > 0

\* The empty dict.
EmptyDict == [x \in {} |-> 0]

\* The outcome of a call: the value returned, or the exception raised.
NoValue == [tag |-> "none"]
Ok(v) == [exc |-> "None", val |-> v]
Raise(e) == [exc |-> e, val |-> NoValue]

(***************************************************************************)
(* mdp.py: State, Action, MDP.                                             *)
(***************************************************************************)
\* Action.__init__: measure and reward (state and mdp are back references).
Action(measure, reward) == [measure |-> measure, reward |-> reward]

\* The three shapes of a description entry.
DistEntry(m) == [shape |-> "dict", measure |-> m, reward |-> 0, target |-> Atom(0)]
PairEntry(m, r) == [shape |-> "tuple", measure |-> m, reward |-> r, target |-> Atom(0)]
TargetEntry(t) == [shape |-> "other", measure |-> EmptyDict, reward |-> 0, target |-> t]

\* isinstance(action_data, tuple) / isinstance(action_data, dict): the Python
\* type of an entry.  A bare target that is itself a tuple label is a tuple.
PyType(e) ==
  IF e.shape = "tuple" \/ (e.shape = "other" /\ e.target.tag = "tuple") THEN "tuple"
  ELSE IF e.shape = "dict" THEN "dict"
  ELSE "other"

\* The body of the loop over action entries of MDP.__init__.
BuildAction(e) ==
  IF PyType(e) = "tuple"
  THEN IF e.shape = "tuple"
       THEN Action(e.measure, e.reward)
       ELSE Action(e.target.k[1], e.target.k[2])   \* measure, reward = action_data
  ELSE IF PyType(e) = "dict"
  THEN Action(e.measure, 0)
  ELSE Action([t \in {e.target} |-> W(1)], 0)

\* "measure, reward = action_data" needs exactly two components.
UnpackFails(e) == e.shape = "other" /\ e.target.tag = "tuple" /\ Len(e.target.k) # 2

\* A description: the labels in insertion order and, per label, a dict from
\* action label to entry.
Description(order, entries) == [order |-> order, entries |-> entries]

SeqRange(s) == {s[i] : i \in 1..Len(s)}

\* MDP.__init__.  A model is the dict `states` (insertion order `order`, and
\* per label the State object: its identity `sid` and its actions), the start
\* state and the goal states (State objects, by identity).
MDP(description) ==
  LET order == description.order
      ents == description.entries
  IN IF \E l \in SeqRange(order) : \E a \in DOMAIN ents[l] : UnpackFails(ents[l][a])
     THEN Raise("ValueError")
     ELSE IF Len(order) = 0
     THEN Raise("IndexError")      \* first_state: list(...)[0] of an empty dict
     ELSE Ok([tag |-> "mdp",
              order |-> order,
              states |-> [l \in SeqRange(order) |->
                            [sid |-> CHOOSE i \in 1..Len(order) : order[i] = l,
                             actions |-> [a \in DOMAIN ents[l] |-> BuildAction(ents[l][a])]]],
              start |-> 1,
              goals |-> <<Len(order)>>])

\* State.label for the State object (M, l) is l; its actions:
Actions(M, l) == M.states[l].actions

\* Action.reachable_states: the positive-weight targets.
reachable_states(action) == {t \in DOMAIN action.measure : RPos(action.measure[t])}

(***************************************************************************)
(* constructors/cycle.py, constructors/path.py.                            *)
(***************************************************************************)
cycle_mdp_actions(i, n) ==
  [a \in {"prev", "next"} |->
     IF a = "prev" THEN TargetEntry(Atom((i - 1) % n)) ELSE TargetEntry(Atom((i + 1) % n))]

cycle_mdp_desc(n) ==
  Description([i \in 1..n |-> Atom(i - 1)],
              [l \in {Atom(i) : i \in 0..(n - 1)} |-> cycle_mdp_actions(l.a, n)])

cycle_mdp(n) == MDP(cycle_mdp_desc(n))

path_mdp_actions(i, n) ==
  LET actions == cycle_mdp_actions(i, n)
      keep == {"prev", "next"} \ ((IF i = 0 THEN {"prev"} ELSE {})
                                  \cup (IF i = n - 1 THEN {"next"} ELSE {}))
  IN [a \in keep |-> actions[a]]

path_mdp_desc(n) ==
  Description([i \in 1..n |-> Atom(i - 1)],
              [l \in {Atom(i) : i \in 0..(n - 1)} |-> path_mdp_actions(l.a, n)])

path_mdp(n) == MDP(path_mdp_desc(n))

(***************************************************************************)
(* products.py and box_product.py.                                         *)
(***************************************************************************)
\* A State object handed to a product: the model that owns it and its label.
StateObj(M, l) == [tag |-> "state", mdp |-> M, label |-> l]

\* The attribute lookup `x.label`.  State objects have the property `label`
\* (mdp.py:9-11).  The keys of a measure are state labels (mdp.py:36 and :41
\* look them up in mdp.states): ints and tuples, which have no such attribute.
HasLabelAttribute(x) == x.tag = "state"

\* d1 | d2: the entries of d2 win.
DictMerge(d1, d2) == d2 @@ d1

labels_postfix(labels, i) == IF labels[i + 1] # "" THEN "-" \o labels[i + 1] ELSE ""

switch_states(sts, index) == IF index = 0 THEN sts ELSE <<sts[2], sts[1]>>

\* products.py _bp_action_data: the measure keys are read through `s.label`.
_bp_action_data(states, labels, index) ==
  LET s_source == states[index + 1]
      s_target == states[((index + 1) % 2) + 1]
      acts == Actions(s_source.mdp, s_source.label)
      post == labels_postfix(labels, index)
      key(s) == Tuple(switch_states(<<s.label, s_target.label>>, index))
  IN IF \E a \in DOMAIN acts : \E s \in DOMAIN acts[a].measure : ~HasLabelAttribute(s)
     THEN Raise("AttributeError")
     ELSE Ok([al \in {a \o post : a \in DOMAIN acts} |->
                LET a == CHOOSE a \in DOMAIN acts : a \o post = al
                    m == acts[a].measure
                IN PairEntry([p \in {key(s) : s \in DOMAIN m} |->
                                m[CHOOSE s \in DOMAIN m : key(s) = p]],
                             acts[a].reward)])

\* The labels of a product in the order of the nested loops: s1 outer, s2 inner.
ProductOrder(M1, M2) ==
  LET n2 == Len(M2.order)
  IN [i \in 1..(Len(M1.order) * n2) |->
        Tuple(<<M1.order[((i - 1) \div n2) + 1], M2.order[((i - 1) % n2) + 1]>>)]

\* products.py _box_product.
_box_product(M1, M2, labels) ==
  LET data(l, i) == _bp_action_data(<<StateObj(M1, l.k[1]), StateObj(M2, l.k[2])>>, labels, i)
      order == ProductOrder(M1, M2)
  IN IF \E l \in SeqRange(order) : \E i \in {0, 1} : data(l, i).exc # "None"
     THEN Raise("AttributeError")
     ELSE MDP(Description(order,
                [l \in SeqRange(order) |-> DictMerge(data(l, 0).val, data(l, 1).val)]))

\* box_product.py _bp_action_data: the measure keys are used as they are.
box_product_bp_action_data(states, labels, index) ==
  LET s_source == states[index + 1]
      s_target == states[((index + 1) % 2) + 1]
      acts == Actions(s_source.mdp, s_source.label)
      post == labels_postfix(labels, index)
      key(k) == Tuple(switch_states(<<k, s_target.label>>, index))
  IN [al \in {a \o post : a \in DOMAIN acts} |->
        LET a == CHOOSE a \in DOMAIN acts : a \o post = al
            m == acts[a].measure
        IN PairEntry([p \in {key(k) : k \in DOMAIN m} |->
                        m[CHOOSE k \in DOMAIN m : key(k) = p]],
                     acts[a].reward)]

\* box_product.py box_product.
box_product_box_product(M1, M2, labels) ==
  LET data(l, i) ==
        box_product_bp_action_data(<<StateObj(M1, l.k[1]), StateObj(M2, l.k[2])>>, labels, i)
      order == ProductOrder(M1, M2)
  IN MDP(Description(order, [l \in SeqRange(order) |-> DictMerge(data(l, 0), data(l, 1))]))

\* products.py product_measure: both keys are read through `.label`.
product_measure(a1_measure, a2_measure) ==
  LET key(s1, s2) == Tuple(<<s1.label, s2.label>>)
      pairs == (DOMAIN a1_measure) \X (DOMAIN a2_measure)
  IN IF \E q \in pairs : ~HasLabelAttribute(q[1]) \/ ~HasLabelAttribute(q[2])
     THEN Raise("AttributeError")
     ELSE Ok([p \in {key(q[1], q[2]) : q \in pairs} |->
                LET q == CHOOSE q \in pairs : key(q[1], q[2]) = p
                IN RHalf(RAdd(a1_measure[q[1]], a2_measure[q[2]]))])

\* _cartesian_product that gives the joined action the sum of the rewards of
\* its two components.
_cartesian_product_summed_rewards(M1, M2, sep) ==
  LET order == ProductOrder(M1, M2)
      a1s(l) == Actions(M1, l.k[1])
      a2s(l) == Actions(M2, l.k[2])
      pm(l, q) == product_measure(a1s(l)[q[1]].measure, a2s(l)[q[2]].measure)
      pairs(l) == (DOMAIN a1s(l)) \X (DOMAIN a2s(l))
      joined(q) == q[1] \o sep \o q[2]
  IN IF \E l \in SeqRange(order) : \E q \in pairs(l) : pm(l, q).exc # "None"
     THEN Raise("AttributeError")
     ELSE MDP(Description(order,
                [l \in SeqRange(order) |->
                   [al \in {joined(q) : q \in pairs(l)} |->
                      LET q == CHOOSE q \in pairs(l) : joined(q) = al
                      IN PairEntry(pm(l, q).val,
                                   a1s(l)[q[1]].reward + a2s(l)[q[2]].reward)]]))

\* products.py _cartesian_product.  Two pairs of actions with the same joined
\* label share one entry of the dict.
_cartesian_product(M1, M2, sep) ==
  LET order == ProductOrder(M1, M2)
      a1s(l) == Actions(M1, l.k[1])
      a2s(l) == Actions(M2, l.k[2])
      pm(l, q) == product_measure(a1s(l)[q[1]].measure, a2s(l)[q[2]].measure)
      pairs(l) == (DOMAIN a1s(l)) \X (DOMAIN a2s(l))
      joined(q) == q[1] \o sep \o q[2]
  IN IF \E l \in SeqRange(order) : \E q \in pairs(l) : pm(l, q).exc # "None"
     THEN Raise("AttributeError")
     ELSE MDP(Description(order,
                [l \in SeqRange(order) |->
                   [al \in {joined(q) : q \in pairs(l)} |->
                      DistEntry(pm(l, CHOOSE q \in pairs(l) : joined(q) = al).val)]]))

\* _append: tuple([*args[0], args[1]]).
_append(args) ==
  IF args.tag # "tuple" \/ args.k = <<>> THEN Raise("TypeError")
  ELSE IF Len(args.k) < 2 THEN Raise("IndexError")
  ELSE IF args.k[1].tag # "tuple" THEN Raise("TypeError")
  ELSE Ok(Tuple(Append(args.k[1].k, args.k[2])))

\* mdp.py relabel_all_states: the loop over a copy of the labels.  `f` maps
\* every label of the copy to the outcome of relabeling_function(label).
RECURSIVE relabel_loop(_, _, _)
relabel_loop(M, old_states, f) ==
  IF old_states = <<>> THEN [exc |-> "None", val |-> M]
  ELSE LET old == Head(old_states)
           state == M.states[old]
           new == f[old]
       IN IF new.exc # "None" THEN [exc |-> new.exc, val |-> M]
          ELSE LET rest == DOMAIN M.states \ {old}
                   popped == SelectSeq(M.order, LAMBDA x : x # old)
                   order2 == IF new.val \in rest THEN popped ELSE Append(popped, new.val)
                   states2 == [l \in rest \cup {new.val} |->
                                 IF l = new.val THEN state ELSE M.states[l]]
               IN relabel_loop([M EXCEPT !.order = order2, !.states = states2],
                               Tail(old_states), f)

\* relabel_all_states: the model object after the call, and the exception
\* that left it, if any.
relabel_all_states(M, f) == relabel_loop(M, M.order, f)

\* partial(product, **kwargs): the binary product with its keyword argument.
_product(kind, M1, M2, kw) ==
  IF kind = "box" THEN _box_product(M1, M2, kw) ELSE _cartesian_product(M1, M2, kw)

\* _relabel(product): the product followed by relabel_all_states(_append).
_relabel(kind, M1, M2, kw) ==
  LET mdp == _product(kind, M1, M2, kw)
  IN IF mdp.exc # "None" THEN mdp
     ELSE relabel_all_states(mdp.val, [l \in SeqRange(mdp.val.order) |-> _append(l)])

\* functools.reduce(_relabel(_product), body, tail).
RECURSIVE reduce(_, _, _, _)
reduce(kind, kw, body, acc) ==
  IF body = <<>> THEN Ok(acc)
  ELSE LET r == _relabel(kind, acc, Head(body), kw)
       IN IF r.exc # "None" THEN Raise(r.exc) ELSE reduce(kind, kw, Tail(body), r.val)

\* _n_ary_product(product): `same` tells whether the value returned is the
\* first operand itself (the one-operand case) and not a new object.
n_ary_product(kind, mdps, kw) ==
  LET n == Len(mdps)
  IN IF n = 0 THEN [exc |-> "TypeError", val |-> NoValue, same |-> FALSE]
     ELSE IF n = 1 THEN [exc |-> "None", val |-> mdps[1], same |-> TRUE]
     ELSE IF n = 2
     THEN LET r == _product(kind, mdps[1], mdps[2], kw)
          IN [exc |-> r.exc, val |-> r.val, same |-> FALSE]
     ELSE LET tail == _product(kind, mdps[n - 1], mdps[n], kw)
              body == SubSeq(mdps, 1, n - 2)
              r == IF tail.exc # "None" THEN tail ELSE reduce(kind, kw, body, tail.val)
          IN [exc |-> r.exc, val |-> r.val, same |-> FALSE]

cartesian_product(mdps, sep) == n_ary_product("cartesian", mdps, sep)
box_product(mdps, labels) == n_ary_product("box", mdps, labels)

(***************************************************************************)
(* twisted.py: Automaton and TwistedMDP.                                   *)
(***************************************************************************)
\* Automaton.__init__; None is the string "None".
Automaton(states, alphabet, transitions, initial, accepting, sink) ==
  [states |-> states, alphabet |-> alphabet, transitions |-> transitions,
   initial |-> initial, accepting |-> accepting, sink |-> sink]

\* Automaton.delta.
delta(automaton, q, sigma) ==
  IF <<q, sigma>> \in DOMAIN automaton.transitions THEN automaton.transitions[<<q, sigma>>]
  ELSE IF automaton.sink # "None" THEN automaton.sink
  ELSE "None"

\* The tuple (base_label, auto_label).
Pair(base_label, auto_label) == [tag |-> "tuple", base |-> base_label, auto |-> auto_label]

\* Action.__init__(self, state, measure, reward=0) takes at most this many
\* arguments after self.
ActionInitMaxArgs == 3
\* _build_twisted_mdp calls Action(action_label, twisted_state, measure, action.reward).
TwistedActionArgs == 4

\* ctmdp.mdp.State((base_label, auto_label)): the tuple becomes the `mdp`
\* field of the new State.
TwistedState(pair) == [tag |-> "state", mdp |-> pair, actions |-> EmptyDict]

\* State.label: self.mdp.state_labels[self]; only a model has state_labels.
StateLabel(state) ==
  IF state.mdp.tag = "mdp"
  THEN Ok(CHOOSE l \in DOMAIN state.mdp.states : state.mdp.states[l].sid = state.sid)
  ELSE Raise("AttributeError")

\* The measure built by the inner loop of _build_twisted_mdp for one base
\* action: every target whose automaton step is defined, with its weight.
twisted_measure(automaton, label_func, auto_label, action) ==
  LET sync == {t \in DOMAIN action.measure :
                 delta(automaton, auto_label, label_func[t]) # "None"}
      twisted_target_label(t) == Pair(t, delta(automaton, auto_label, label_func[t]))
  IN [p \in {twisted_target_label(t) : t \in sync} |-> action.measure[p.base]]

\* A set as a sequence, in an order that has no effect on what is built.
RECURSIVE SetToSeq(_)
SetToSeq(S) == IF S = {} THEN <<>> ELSE LET x == CHOOSE x \in S : TRUE
                                        IN <<x>> \o SetToSeq(S \ {x})

\* The while loop of _build_twisted_mdp: `states` is self.states; an
\* exception leaves self.states as it was when it was raised.
RECURSIVE build_loop(_, _, _, _, _, _)
build_loop(base_mdp, automaton, label_func, queue, visited, states) ==
  IF queue = <<>> THEN Ok(states)
  ELSE LET pair == Head(queue)
       IN IF pair \in visited
          THEN build_loop(base_mdp, automaton, label_func, Tail(queue), visited, states)
          ELSE IF pair.base \notin DOMAIN base_mdp.states
          THEN [exc |-> "KeyError", val |-> states]
          ELSE LET base_state == base_mdp.states[pair.base]
                   twisted_state == TwistedState(pair)
                   measure(a) == twisted_measure(automaton, label_func, pair.auto,
                                                 base_state.actions[a])
                   kept == {a \in DOMAIN base_state.actions : measure(a) # EmptyDict}
                   targets == UNION {DOMAIN measure(a) : a \in DOMAIN base_state.actions}
                   label == StateLabel(twisted_state)
               IN IF kept # {} /\ TwistedActionArgs > ActionInitMaxArgs
                  THEN [exc |-> "TypeError", val |-> states]
                  ELSE IF label.exc # "None" THEN [exc |-> label.exc, val |-> states]
                  ELSE build_loop(base_mdp, automaton, label_func,
                         Tail(queue) \o SetToSeq(targets \ (visited \cup {pair})),
                         visited \cup {pair},
                         (label.val :> [actions |-> [a \in kept |->
                                          Action(measure(a), base_state.actions[a].reward)]])
                           @@ states)

\* TwistedMDP.__init__ with _build_twisted_mdp: the exception raised, if
\* any, and the dict self.states when the constructor ended.
TwistedMDP(base_mdp, automaton, label_func) ==
  IF base_mdp.order = <<>> THEN [exc |-> "StopIteration", val |-> EmptyDict]
  ELSE LET initial_pair == Pair(base_mdp.order[1], automaton.initial)
           built == build_loop(base_mdp, automaton, label_func, <<initial_pair>>, {}, EmptyDict)
       IN IF built.exc # "None" THEN built
          ELSE IF initial_pair \notin DOMAIN built.val
          THEN [exc |-> "KeyError", val |-> built.val]
          ELSE built

(***************************************************************************)
(* quotient.py: partition refinement and the quotient model.               *)
(***************************************************************************)
\* A str used as a key, such as "reward".
Str(name) == [tag |-> "str_" \o name, a |-> 0, k |-> <<>>]

\* sum(...) of the weights of the keys of `measure` that lie in S.
RECURSIVE RSum(_, _)
RSum(measure, S) ==
  IF S = {} THEN W(0)
  ELSE LET x == CHOOSE x \in S : TRUE IN RAdd(measure[x], RSum(measure, S \ {x}))

\* Iterating a set yields its members in an order the program does not
\* control; `it` lists all labels in the order this run's sets yield them.
IterSeq(S, it) == SelectSeq(it, LAMBDA x : x \in S)

\* Group the labels of `seq`, in order, by key[label]: a defaultdict(set)
\* filled in that order; the result lists the groups in order of first
\* insertion.
RECURSIVE GroupBy(_, _, _)
GroupBy(seq, key, groups) ==
  IF seq = <<>> THEN groups
  ELSE LET x == Head(seq)
           hit == {i \in 1..Len(groups) : \E y \in groups[i] : key[y] = key[x]}
       IN GroupBy(Tail(seq), key,
                  IF hit = {} THEN Append(groups, {x})
                  ELSE [groups EXCEPT ![CHOOSE i \in hit : TRUE] = @ \cup {x}])

\* Step 1 of bisimulation_partition_refinement: states grouped by their
\* sorted action labels.
initial_partition(mdp) ==
  LET action_set == [s_label \in DOMAIN mdp.states |-> DOMAIN mdp.states[s_label].actions]
  IN GroupBy(mdp.order, action_set, <<>>)

\* signature that keeps the action labels and leaves the weights out.
signature_without_weights(mdp, partition, s_label) ==
  LET acts == mdp.states[s_label].actions
  IN [a_label \in DOMAIN acts |-> <<>>]

\* signature with the reward of each action kept in it.
signature_with_reward(mdp, partition, s_label) ==
  LET acts == mdp.states[s_label].actions
  IN [a_label \in DOMAIN acts |->
        <<[i \in 1..Len(partition) |->
             RSum(acts[a_label].measure, DOMAIN acts[a_label].measure \cap partition[i])],
          acts[a_label].reward>>]

\* The signature of a state against `partition`: per action label (sorted)
\* the sums of the weights that go to each block; the reward is left out.
signature(mdp, partition, s_label) ==
  LET acts == mdp.states[s_label].actions
  IN [a_label \in DOMAIN acts |->
        [i \in 1..Len(partition) |->
           RSum(acts[a_label].measure, DOMAIN acts[a_label].measure \cap partition[i])]]

\* refine_blocks whose singleton branch continues without appending the block.
RECURSIVE refine_blocks_drop_singletons(_, _, _, _, _, _)
refine_blocks_drop_singletons(mdp, partition, it, todo, new_partition, changed) ==
  IF todo = <<>> THEN [partition |-> new_partition, changed |-> changed]
  ELSE LET block == Head(todo)
           sig == [s \in block |-> signature(mdp, partition, s)]
           signatures == GroupBy(IterSeq(block, it), sig, <<>>)
       IN IF Cardinality(block) = 1
          THEN refine_blocks_drop_singletons(mdp, partition, it, Tail(todo),
                                             new_partition, changed)
          ELSE IF Len(signatures) = 1
          THEN refine_blocks_drop_singletons(mdp, partition, it, Tail(todo),
                                             Append(new_partition, block), changed)
          ELSE refine_blocks_drop_singletons(mdp, partition, it, Tail(todo),
                                             new_partition \o signatures, TRUE)

\* refine_blocks that puts an unsplit singleton block into the block appended
\* before it.
RECURSIVE refine_blocks_merge_singletons(_, _, _, _, _, _)
refine_blocks_merge_singletons(mdp, partition, it, todo, new_partition, changed) ==
  IF todo = <<>> THEN [partition |-> new_partition, changed |-> changed]
  ELSE LET block == Head(todo)
           sig == [s \in block |-> signature(mdp, partition, s)]
           signatures == GroupBy(IterSeq(block, it), sig, <<>>)
           n == Len(new_partition)
       IN IF Cardinality(block) = 1 /\ n > 0
          THEN refine_blocks_merge_singletons(mdp, partition, it, Tail(todo),
                 [new_partition EXCEPT ![n] = @ \cup block], changed)
          ELSE IF Cardinality(block) = 1 \/ Len(signatures) = 1
          THEN refine_blocks_merge_singletons(mdp, partition, it, Tail(todo),
                                              Append(new_partition, block), changed)
          ELSE refine_blocks_merge_singletons(mdp, partition, it, Tail(todo),
                                              new_partition \o signatures, TRUE)

\* One pass of the while loop over the blocks of `partition`.
RECURSIVE refine_blocks(_, _, _, _, _, _)
refine_blocks(mdp, partition, it, todo, new_partition, changed) ==
  IF todo = <<>> THEN [partition |-> new_partition, changed |-> changed]
  ELSE LET block == Head(todo)
           sig == [s \in block |-> signature(mdp, partition, s)]
           signatures == GroupBy(IterSeq(block, it), sig, <<>>)
       IN IF Cardinality(block) = 1 \/ Len(signatures) = 1
          THEN refine_blocks(mdp, partition, it, Tail(todo),
                             Append(new_partition, block), changed)
          ELSE refine_blocks(mdp, partition, it, Tail(todo),
                             new_partition \o signatures, TRUE)

\* Step 2: refine until no block splits.  `rounds` counts the passes.
RECURSIVE refine_loop(_, _, _, _)
refine_loop(mdp, partition, it, rounds) ==
  LET r == refine_blocks(mdp, partition, it, partition, <<>>, FALSE)
  IN IF r.changed THEN refine_loop(mdp, r.partition, it, rounds + 1)
     ELSE [partition |-> r.partition, rounds |-> rounds + 1]

bisimulation_partition_refinement(mdp, it) ==
  refine_loop(mdp, initial_partition(mdp), it, 0).partition

\* build_quotient_mdp that makes one block of every state instead of taking
\* the blocks of the refined partition.
build_quotient_mdp_block_per_state(mdp, it) ==
  LET partition == [i \in 1..Len(mdp.order) |-> {mdp.order[i]}]
      ids == 1..Len(partition)
      covered == UNION {partition[i] : i \in ids}
      state_to_block(s) == (CHOOSE i \in ids : s \in partition[i]) - 1
      rep(i) == Head(IterSeq(partition[i], it))
      rep_actions(i) == mdp.states[rep(i)].actions
      transition_dict(a_obj) ==
        LET blocks == {state_to_block(t) : t \in DOMAIN a_obj.measure}
            to_block(b) == {t \in DOMAIN a_obj.measure : state_to_block(t) = b}
        IN (Str("reward") :> W(a_obj.reward)) @@
           [t \in {Atom(b) : b \in blocks} |-> RSum(a_obj.measure, to_block(t.a))]
  IN IF \E i \in ids : \E a \in DOMAIN rep_actions(i) :
          ~(DOMAIN rep_actions(i)[a].measure \subseteq covered)
     THEN Raise("KeyError")
     ELSE MDP(Description([i \in ids |-> Atom(i - 1)],
                [l \in {Atom(i - 1) : i \in ids} |->
                   [a \in DOMAIN rep_actions(l.a + 1) |->
                      DistEntry(transition_dict(rep_actions(l.a + 1)[a]))]]))

\* build_quotient_mdp: the quotient model (state_to_block and g are not
\* part of the value).
build_quotient_mdp(mdp, it) ==
  LET partition == bisimulation_partition_refinement(mdp, it)
      ids == 1..Len(partition)
      covered == UNION {partition[i] : i \in ids}
      state_to_block(s) == (CHOOSE i \in ids : s \in partition[i]) - 1
      rep(i) == Head(IterSeq(partition[i], it))
      rep_actions(i) == mdp.states[rep(i)].actions
      transition_dict(a_obj) ==
        LET blocks == {state_to_block(t) : t \in DOMAIN a_obj.measure}
            to_block(b) == {t \in DOMAIN a_obj.measure : state_to_block(t) = b}
        IN (Str("reward") :> W(a_obj.reward)) @@
           [t \in {Atom(b) : b \in blocks} |-> RSum(a_obj.measure, to_block(t.a))]
  IN IF \E i \in ids : \E a \in DOMAIN rep_actions(i) :
          ~(DOMAIN rep_actions(i)[a].measure \subseteq covered)
     THEN Raise("KeyError")
     ELSE MDP(Description([i \in ids |-> Atom(i - 1)],
                [l \in {Atom(i - 1) : i \in ids} |->
                   [a \in DOMAIN rep_actions(l.a + 1) |->
                      DistEntry(transition_dict(rep_actions(l.a + 1)[a]))]]))

(***************************************************************************)
(* rewards.py and the bulk reward passes of mdp.py.                        *)
(***************************************************************************)
\* reward_action_label(label, reward) applied to the action labelled a_label.
reward_action_label(label, reward, a_label) == IF a_label = label THEN reward ELSE 0

\* penalize_non_action_label(label, penalty) applied to the action labelled a_label.
penalize_non_action_label(label, penalty, a_label) == IF a_label # label THEN -penalty ELSE 0

\* The labels of the actions of M.
ActionLabels(M) == UNION {DOMAIN M.states[l].actions : l \in DOMAIN M.states}

\* MDP.set_rewards(f) and MDP.add_rewards(f); f is given by its value on
\* each action label.
set_rewards(M, f) ==
  [M EXCEPT !.states = [l \in DOMAIN M.states |->
     [M.states[l] EXCEPT !.actions = [a \in DOMAIN M.states[l].actions |->
        [M.states[l].actions[a] EXCEPT !.reward = f[a]]]]]]

add_rewards(M, f) ==
  [M EXCEPT !.states = [l \in DOMAIN M.states |->
     [M.states[l] EXCEPT !.actions = [a \in DOMAIN M.states[l].actions |->
        [M.states[l].actions[a] EXCEPT !.reward = @ + f[a]]]]]]

(***************************************************************************)
(* The inputs of a session.                                                *)
(***************************************************************************)
\* Descriptions written by hand: empty measures, rewards, unnormalised and
\* zero weights, a state without actions, action labels that share a prefix.
HandDescriptions ==
  { Description(<<Atom(0), Atom(1)>>,
      (Atom(0) :> ("a" :> DistEntry(EmptyDict) @@ "b" :> PairEntry(EmptyDict, 3))) @@
      (Atom(1) :> ("a" :> DistEntry(EmptyDict)))),
    Description(<<Atom(0), Atom(1)>>,
      (Atom(0) :> ("a-M1" :> PairEntry(EmptyDict, 1) @@ "a" :> DistEntry(EmptyDict))) @@
      (Atom(1) :> EmptyDict)),
    Description(<<Atom(0), Atom(1)>>,
      (Atom(0) :> ("a" :> PairEntry(Atom(0) :> W(1) @@ Atom(1) :> W(3), 2))) @@
      (Atom(1) :> ("a" :> PairEntry(Atom(1) :> W(1), 0) @@
                   "b" :> DistEntry(Atom(0) :> W(0) @@ Atom(1) :> W(2))))),
    Description(<<Atom(0)>>,
      Atom(0) :> ("a" :> DistEntry(EmptyDict) @@ "a-a" :> PairEntry(EmptyDict, 1))) }

Descriptions ==
  {path_mdp_desc(n) : n \in 1..MaxN} \cup {cycle_mdp_desc(MaxN)}
  \cup HandDescriptions

InputModels == {MDP(d).val : d \in Descriptions}

\* The models the third operand is drawn from.
ThirdOperands ==
  {MDP(Description(<<Atom(5), Atom(6)>>,
         (Atom(5) :> ("c" :> PairEntry(EmptyDict, 4))) @@ (Atom(6) :> EmptyDict))).val}

\* The `labels` arguments of box_product and the `sep` arguments of
\* cartesian_product that a session uses.
LabelArgs == {<<"M1", "M2">>, <<"", "M3">>, <<"", "">>}
SepArgs == {"-", ""}

\* The number of operands handed to an n-ary product.
OperandCounts == 1..3

(***************************************************************************)
(* The session: a store of model objects and the calls made so far.        *)
(***************************************************************************)
\* The record of a call: the operation, the objects it was applied to, its
\* keyword argument, the exception raised ("None" when it returned), the
\* object returned (0 when none) and the store before the call.
Call(op, args, kw, exc, ref, pre) ==
  [op |-> op, args |-> args, kw |-> kw, exc |-> exc, ref |-> ref, pre |-> pre]

\* The store after a call that returned `r`: a new object unless the call
\* returned one of its operands.
Store(r) == IF r.exc = "None" /\ ~r.same THEN Append(heap, r.val) ELSE heap
Ref(r) == IF r.exc # "None" THEN 0 ELSE IF r.same THEN 1 ELSE Len(heap) + 1

Init ==
  /\ \E M1 \in InputModels, M2 \in InputModels, M3 \in ThirdOperands : heap = <<M1, M2, M3>>
  /\ calls = <<>>

\* products.box_product(*heap[1..n], labels=labels)
BoxProduct ==
  \E n \in OperandCounts, labels \in LabelArgs :
    LET r == box_product(SubSeq(heap, 1, n), labels)
    IN /\ Len(calls) < MaxCalls
       /\ heap' = Store(r)
       /\ calls' = Append(calls, Call("box_product", [i \in 1..n |-> i], labels,
                                      r.exc, Ref(r), heap))

\* products.cartesian_product(*heap[1..n], sep=sep)
CartesianProduct ==
  \E n \in OperandCounts, sep \in SepArgs :
    LET r == cartesian_product(SubSeq(heap, 1, n), sep)
    IN /\ Len(calls) < MaxCalls
       /\ heap' = Store(r)
       /\ calls' = Append(calls, Call("cartesian_product", [i \in 1..n |-> i], <<sep>>,
                                      r.exc, Ref(r), heap))

\* box_product.box_product(heap[1], heap[2], labels=labels)
BoxProductModule ==
  \E labels \in LabelArgs :
    LET r == box_product_box_product(heap[1], heap[2], labels)
    IN /\ Len(calls) < MaxCalls
       /\ heap' = Append(heap, r.val)
       /\ calls' = Append(calls, Call("box_product.box_product", <<1, 2>>, labels,
                                      r.exc, Len(heap) + 1, heap))

\* heap[t].set_rewards(reward_action_label(label, 1))
SetRewards ==
  \E t \in 1..Len(heap), label \in {"next", "a"} :
    LET f == [a \in ActionLabels(heap[t]) |-> reward_action_label(label, 1, a)]
    IN /\ Len(calls) < MaxCalls
       /\ heap' = [heap EXCEPT ![t] = set_rewards(heap[t], f)]
       /\ calls' = Append(calls, Call("set_rewards", <<t>>, <<label>>, "None", 0, heap))

\* heap[t].add_rewards(penalize_non_action_label(label, 2))
AddRewards ==
  \E t \in 1..Len(heap), label \in {"next"} :
    LET f == [a \in ActionLabels(heap[t]) |-> penalize_non_action_label(label, 2, a)]
    IN /\ Len(calls) < MaxCalls
       /\ heap' = [heap EXCEPT ![t] = add_rewards(heap[t], f)]
       /\ calls' = Append(calls, Call("add_rewards", <<t>>, <<label>>, "None", 0, heap))

\* heap[t].relabel_all_states(_append)
RelabelAllStates ==
  \E t \in 1..Len(heap) :
    LET r == relabel_all_states(heap[t], [l \in SeqRange(heap[t].order) |-> _append(l)])
    IN /\ Len(calls) < MaxCalls
       /\ heap' = [heap EXCEPT ![t] = r.val]
       /\ calls' = Append(calls, Call("relabel_all_states", <<t>>, <<"_append">>,
                                      r.exc, 0, heap))

(***************************************************************************)
(* Sessions that build automaton products.                                 *)
(***************************************************************************)
\* examples/twisted.py: "goal" leads to the absorbing accepting state q_goal,
\* every other symbol self-loops.
GoalAutomaton ==
  Automaton({"q0", "q_goal"}, {"start", "safe", "goal"},
            [p \in {"q0", "q_goal"} \X {"start", "safe", "goal"} |->
               IF p[1] = "q0" /\ p[2] # "goal" THEN "q0" ELSE "q_goal"],
            "q0", {"q_goal"}, "None")

\* The same automaton with no transition on "start" ...
PartialAutomaton ==
  Automaton({"q0", "q_goal"}, {"start", "safe", "goal"},
            [p \in {"q0", "q_goal"} \X {"safe", "goal"} |->
               IF p[1] = "q0" /\ p[2] # "goal" THEN "q0" ELSE "q_goal"],
            "q0", {"q_goal"}, "None")

\* ... and with a sink for it.
SinkAutomaton ==
  Automaton({"q0", "q_goal", "q_sink"}, {"start", "safe", "goal"},
            PartialAutomaton.transitions, "q0", {"q_goal"}, "q_sink")

Automata == {GoalAutomaton, PartialAutomaton, SinkAutomaton}

\* example_label_func for atomic labels: the label `goal` is "goal", label 0
\* is "start", every other label is "safe".
example_label_func(goal) ==
  [l \in {Atom(i) : i \in 0..MaxN} |->
     IF l = Atom(goal) THEN "goal" ELSE IF l = Atom(0) THEN "start" ELSE "safe"]

LabelFuncs == {example_label_func(g) : g \in 0..MaxN}

\* The TwistedMDP object: its dict `states`.
TwistedObject(states) == [tag |-> "twisted", states |-> states]

InitTwisted ==
  /\ \E M \in InputModels : heap = <<M>>
  /\ calls = <<>>

\* TwistedMDP(heap[1], automaton, label_func); the call record keeps the
\* arguments and the dict self.states the constructor left.
Twist ==
  \E automaton \in Automata, label_func \in LabelFuncs :
    LET r == TwistedMDP(heap[1], automaton, label_func)
    IN /\ Len(calls) < MaxCalls
       /\ heap' = IF r.exc = "None" THEN Append(heap, TwistedObject(r.val)) ELSE heap
       /\ calls' = Append(calls,
            [Call("TwistedMDP", <<1>>, <<>>, r.exc,
                  IF r.exc = "None" THEN Len(heap) + 1 ELSE 0, heap)
               EXCEPT !.kw = [automaton |-> automaton, label_func |-> label_func,
                              states |-> r.val]])

NextTwisted == Twist

SpecTwisted == InitTwisted /\ [][NextTwisted]_vars

\* The orders in which the sets of labels of M may be iterated.
Orders(M) == {it \in [1..Len(M.order) -> SeqRange(M.order)] : SeqRange(it) = SeqRange(M.order)}

\* quotient.build_quotient_mdp(heap[1])
BuildQuotient ==
  \E it \in Orders(heap[1]) :
    LET r == build_quotient_mdp(heap[1], it)
    IN /\ Len(calls) < MaxCalls
       /\ heap' = IF r.exc = "None" THEN Append(heap, r.val) ELSE heap
       /\ calls' = Append(calls, Call("build_quotient_mdp", <<1>>, <<>>, r.exc,
                                      IF r.exc = "None" THEN Len(heap) + 1 ELSE 0, heap))

Next ==
  \/ BoxProduct
  \/ CartesianProduct
  \/ BoxProductModule
  \/ SetRewards
  \/ AddRewards
  \/ RelabelAllStates
  \/ BuildQuotient

Spec == Init /\ [][Next]_vars

(***************************************************************************)
(* The claims.                                                             *)
(***************************************************************************)
\* The call made last, its operands as they were before it, and its result.
Last == calls[Len(calls)]
Called(op, n) == calls # <<>> /\ Last.op = op /\ Len(Last.args) = n
Operand(i) == Last.pre[i]
Result == heap[Last.ref]
Labels(M) == DOMAIN M.states
NActs(M, l) == Cardinality(DOMAIN M.states[l].actions)
DefaultLabels == <<"M1", "M2">>

\* The measure `measure` moved to coordinate index of a pair whose other
\* coordinate is frozen at `other`.
Frozen(measure, other, index) ==
  [p \in {Tuple(switch_states(<<t, other>>, index)) : t \in DOMAIN measure} |->
     measure[p.k[index + 1]]]

\* C1: the two-operand box product, whatever the suffixes, returns a model in
\* which every pair (s1, s2) of operand labels is a state whose number of
\* actions is the number of actions of s1 plus the number of actions of s2.
C1_BoxProductActionCount ==
  Called("box_product", 2) =>
    /\ Last.exc = "None"
    /\ \A s1 \in Labels(Operand(1)), s2 \in Labels(Operand(2)) :
         /\ Tuple(<<s1, s2>>) \in Labels(Result)
         /\ NActs(Result, Tuple(<<s1, s2>>)) = NActs(Operand(1), s1) + NActs(Operand(2), s2)

\* C2: in the two-operand box product with the default suffixes, the action
\* of (s1, s2) derived from an action of s1 has that action's measure with
\* the second coordinate frozen at s2, the action derived from an action of
\* s2 has that action's measure with the first coordinate frozen at s1, and
\* both carry the reward of the action they come from.
C2_BoxProductMeasureAndReward ==
  (Called("box_product", 2) /\ Last.kw = DefaultLabels) =>
    /\ Last.exc = "None"
    /\ \A s1 \in Labels(Operand(1)), s2 \in Labels(Operand(2)) :
         LET acts == Result.states[Tuple(<<s1, s2>>)].actions
             from(index) == IF index = 0 THEN Operand(1).states[s1].actions
                            ELSE Operand(2).states[s2].actions
             other(index) == IF index = 0 THEN s2 ELSE s1
         IN \A index \in {0, 1} : \A a \in DOMAIN from(index) :
              LET pa == a \o labels_postfix(Last.kw, index)
              IN /\ pa \in DOMAIN acts
                 /\ acts[pa].measure = Frozen(from(index)[a].measure, other(index), index)
                 /\ acts[pa].reward = from(index)[a].reward

\* Every target of every measure of M is a label of M.
Closed(M) ==
  \A l \in Labels(M) : \A a \in DOMAIN M.states[l].actions :
    DOMAIN M.states[l].actions[a].measure \subseteq Labels(M)

Permutations3 == {sg \in [1..3 -> 1..3] : {sg[j] : j \in 1..3} = 1..3}

\* C3: the box product of three operands with closed measures and the
\* default suffixes returns a model whose states are triples, one coordinate
\* per operand; the number of actions of a state is the sum of the operands'
\* numbers of actions at its coordinates, and every target of every measure
\* is a state of the returned model that differs from the action's own state
\* in at most one coordinate.
C3_NaryBoxProduct ==
  (Called("box_product", 3) /\ Last.kw = DefaultLabels
     /\ \A i \in 1..3 : Closed(Operand(i))) =>
    /\ Last.exc = "None"
    /\ \E sg \in Permutations3 : \A l \in Labels(Result) :
         /\ l.tag = "tuple" /\ Len(l.k) = 3
         /\ \A j \in 1..3 : l.k[j] \in Labels(Operand(sg[j]))
         /\ NActs(Result, l) = NActs(Operand(sg[1]), l.k[1]) + NActs(Operand(sg[2]), l.k[2])
                               + NActs(Operand(sg[3]), l.k[3])
         /\ \A a \in DOMAIN Result.states[l].actions :
              \A t \in DOMAIN Result.states[l].actions[a].measure :
                /\ t \in Labels(Result)
                /\ Cardinality({j \in 1..3 : t.k[j] # l.k[j]}) <= 1

\* C4: the box product of the chain path_mdp(n) with itself, n >= 2, has n*n
\* states; state (i, j) has 2 actions when i and j are both endpoints, 3 when
\* one of them is, 4 when neither is.
C4_PathSelfBoxProduct ==
  \A n \in 2..MaxN :
    (Called("box_product", 2) /\ Last.kw = DefaultLabels
       /\ Operand(1) = path_mdp(n).val /\ Operand(2) = path_mdp(n).val) =>
      /\ Last.exc = "None"
      /\ Cardinality(Labels(Result)) = n * n
      /\ \A i \in 0..(n - 1), j \in 0..(n - 1) :
           LET end(x) == IF x = 0 \/ x = n - 1 THEN 1 ELSE 0
           IN /\ Tuple(<<Atom(i), Atom(j)>>) \in Labels(Result)
              /\ NActs(Result, Tuple(<<Atom(i), Atom(j)>>)) = 4 - end(i) - end(j)

\* C5: the two-operand Cartesian product, whatever the separator, returns a
\* model in which (s1, s2) has one action for each pair of an action of s1
\* and an action of s2, labelled by the two labels joined by the separator,
\* so (number of actions of s1) x (number of actions of s2) actions.
C5_CartesianActionCount ==
  Called("cartesian_product", 2) =>
    /\ Last.exc = "None"
    /\ \A s1 \in Labels(Operand(1)), s2 \in Labels(Operand(2)) :
         LET A1 == DOMAIN Operand(1).states[s1].actions
             A2 == DOMAIN Operand(2).states[s2].actions
         IN /\ Tuple(<<s1, s2>>) \in Labels(Result)
            /\ DOMAIN Result.states[Tuple(<<s1, s2>>)].actions
                 = {a1 \o Last.kw[1] \o a2 : a1 \in A1, a2 \in A2}
            /\ NActs(Result, Tuple(<<s1, s2>>)) = Cardinality(A1) * Cardinality(A2)

\* C6: in the two-operand Cartesian product the measure of the action built
\* from a1 (at s1) and a2 (at s2) has exactly one entry (t1, t2) for every
\* target t1 of a1 and every target t2 of a2, of weight (w1 + w2) / 2.
C6_CartesianMeasure ==
  Called("cartesian_product", 2) =>
    /\ Last.exc = "None"
    /\ \A s1 \in Labels(Operand(1)), s2 \in Labels(Operand(2)) :
         LET A1 == Operand(1).states[s1].actions
             A2 == Operand(2).states[s2].actions
             acts == Result.states[Tuple(<<s1, s2>>)].actions
         IN \A a1 \in DOMAIN A1, a2 \in DOMAIN A2 :
              acts[a1 \o Last.kw[1] \o a2].measure
                = [p \in {Tuple(<<t1, t2>>) : t1 \in DOMAIN A1[a1].measure,
                                              t2 \in DOMAIN A2[a2].measure} |->
                     RHalf(RAdd(A1[a1].measure[p.k[1]], A2[a2].measure[p.k[2]]))]

\* C7: the product of three operands (box or Cartesian) returns a model whose
\* labels are flat triples, the i-th coordinate a label of the i-th operand,
\* and which has as many states as the operands' state counts multiplied.
C7_NaryLabelsFlatInOperandOrder ==
  (Called("box_product", 3) \/ Called("cartesian_product", 3)) =>
    /\ Last.exc = "None"
    /\ \A l \in Labels(Result) :
         /\ l.tag = "tuple" /\ Len(l.k) = 3
         /\ \A i \in 1..3 : l.k[i] \in Labels(Operand(i))
    /\ Cardinality(Labels(Result))
         = Cardinality(Labels(Operand(1))) * Cardinality(Labels(Operand(2)))
           * Cardinality(Labels(Operand(3)))

\* A call of a product (one operand or more) or of build_quotient_mdp.
IsConstruction(c) ==
  \/ c.op \in {"box_product", "cartesian_product"} /\ Len(c.args) >= 1
  \/ c.op = "build_quotient_mdp"
IsBulk(c) == c.op \in {"set_rewards", "add_rewards", "relabel_all_states"}

\* C8: box_product, cartesian_product (one operand or more) and
\* build_quotient_mdp return a new model and leave every operand as it was;
\* a later bulk pass over the model returned changes no operand.
C8_ProductsReturnFreshModels ==
  /\ (calls # <<>> /\ IsConstruction(Last)) =>
       /\ Last.exc = "None"
       /\ Last.ref \notin 1..Len(Last.pre)
       /\ \A i \in 1..Len(Last.pre) : heap[i] = Last.pre[i]
  /\ (Len(calls) = 2 /\ IsConstruction(calls[1]) /\ IsBulk(calls[2])
        /\ calls[2].args = <<calls[1].ref>>) =>
       \A i \in SeqRange(calls[1].args) : heap[i] = calls[1].pre[i]

\* The pairs one step from the pair p: (t, delta(q, L(t))) for the
\* positive-weight targets t of the actions of p's base state on which the
\* automaton has a step.
PairSuccessors(base, automaton, L, p) ==
  LET targets == UNION {reachable_states(base.states[p.base].actions[a]) :
                          a \in DOMAIN base.states[p.base].actions}
  IN {Pair(t, delta(automaton, p.auto, L[t])) :
        t \in {u \in targets : delta(automaton, p.auto, L[u]) # "None"}}

RECURSIVE PairClosure(_, _, _, _)
PairClosure(base, automaton, L, S) ==
  LET N == S \cup UNION {PairSuccessors(base, automaton, L, p) : p \in S}
  IN IF N = S THEN S ELSE PairClosure(base, automaton, L, N)

ReachablePairs(base, automaton, L) ==
  PairClosure(base, automaton, L, {Pair(base.order[1], automaton.initial)})

\* C9: when the constructor of the automaton product ends, the twisted
\* states it has materialized are exactly the pairs reachable from (first
\* base state, initial automaton state).
C9_TwistedStatesAreReachablePairs ==
  Called("TwistedMDP", 1) =>
    DOMAIN Last.kw.states = ReachablePairs(Operand(1), Last.kw.automaton, Last.kw.label_func)

\* The positive-weight targets of the actions of the base states in S, the
\* base states reachable from the first one, and the targets of their actions.
BaseSuccessors(base, S) ==
  UNION {UNION {reachable_states(base.states[l].actions[a]) :
                  a \in DOMAIN base.states[l].actions} : l \in S}

RECURSIVE BaseClosure(_, _)
BaseClosure(base, S) ==
  LET N == S \cup BaseSuccessors(base, S)
  IN IF N = S THEN S ELSE BaseClosure(base, N)

ReachableTargets(base) == BaseSuccessors(base, BaseClosure(base, {base.order[1]}))

\* C10: with the automaton whose symbol "goal" leads to the absorbing
\* accepting state, when the labelling maps to "goal" a base state that is a
\* target of an action reachable from the first base state, the constructor
\* returns, the twisted model has a state whose automaton component is
\* accepting, and every action of such a state has only such targets.
C10_GoalAutomatonReachesAccepting ==
  (Called("TwistedMDP", 1) /\ Last.kw.automaton = GoalAutomaton
     /\ \E t \in ReachableTargets(Operand(1)) : Last.kw.label_func[t] = "goal") =>
    /\ Last.exc = "None"
    /\ \E p \in DOMAIN Last.kw.states : p.auto \in GoalAutomaton.accepting
    /\ \A p \in DOMAIN Last.kw.states :
         p.auto \in GoalAutomaton.accepting =>
           \A a \in DOMAIN Last.kw.states[p].actions :
             \A t \in DOMAIN Last.kw.states[p].actions[a].measure :
               t.auto \in GoalAutomaton.accepting

\* The base actions of the pair p that have a positive-weight target on
\* which the automaton has a step from p's automaton state.
SynchronizingActions(base, automaton, L, p) ==
  {a \in DOMAIN base.states[p.base].actions :
     \E t \in reachable_states(base.states[p.base].actions[a]) :
       delta(automaton, p.auto, L[t]) # "None"}

\* C11: when the constructor of the automaton product ends, the twisted
\* state of every reachable pair carries exactly the base actions that have
\* a positive-weight synchronizing target, and the measure of every action
\* of every twisted state has at least one entry of positive weight.
C11_NoEmptyMeasureSurvives ==
  Called("TwistedMDP", 1) =>
    /\ \A p \in ReachablePairs(Operand(1), Last.kw.automaton, Last.kw.label_func) :
         /\ p \in DOMAIN Last.kw.states
         /\ DOMAIN Last.kw.states[p].actions
              = SynchronizingActions(Operand(1), Last.kw.automaton, Last.kw.label_func, p)
    /\ \A p \in DOMAIN Last.kw.states : \A a \in DOMAIN Last.kw.states[p].actions :
         \E t \in DOMAIN Last.kw.states[p].actions[a].measure :
           RPos(Last.kw.states[p].actions[a].measure[t])

(***************************************************************************)
(* Sessions that refine partitions and build quotients.                    *)
(***************************************************************************)
\* More descriptions: a chain on one action label whose last state has no
\* action (one block splits per pass), two states told apart only by the
\* total weight of their action, two states that differ only in rewards,
\* three states whose weights into a block add up to the same sum, and two
\* states with the same step into a third that has no action.
QuotientDescriptions ==
  { Description(<<Atom(0), Atom(1), Atom(2), Atom(3)>>,
      (Atom(0) :> ("a" :> TargetEntry(Atom(1)))) @@ (Atom(1) :> ("a" :> TargetEntry(Atom(2)))) @@
      (Atom(2) :> ("a" :> TargetEntry(Atom(3)))) @@ (Atom(3) :> EmptyDict)),
    Description(<<Atom(0), Atom(1)>>,
      (Atom(0) :> ("a" :> DistEntry(Atom(0) :> W(1)))) @@
      (Atom(1) :> ("a" :> DistEntry(Atom(0) :> W(2))))),
    Description(<<Atom(0), Atom(1)>>,
      (Atom(0) :> ("a" :> PairEntry(Atom(1) :> W(1), 5))) @@
      (Atom(1) :> ("a" :> PairEntry(Atom(0) :> W(1), 7)))),
    Description(<<Atom(0), Atom(1), Atom(2)>>,
      (Atom(0) :> ("a" :> PairEntry(Atom(1) :> W(1) @@ Atom(2) :> W(1), 1))) @@
      (Atom(1) :> ("a" :> DistEntry(Atom(1) :> W(2)))) @@
      (Atom(2) :> ("a" :> DistEntry(Atom(0) :> W(2))))),
    Description(<<Atom(0), Atom(1), Atom(2)>>,
      (Atom(0) :> ("a" :> PairEntry(Atom(2) :> W(1), 1))) @@
      (Atom(1) :> ("a" :> PairEntry(Atom(2) :> W(1), 3))) @@
      (Atom(2) :> EmptyDict)) }

QuotientModels == InputModels \cup {MDP(d).val : d \in QuotientDescriptions}

\* The passes of the while loop are capped in the model.
MaxRounds == 6

\* The frame of a running bisimulation_partition_refinement(heap[t]): the
\* iteration order of this run, the local `partition` and `changed`, the
\* passes of the while loop made so far, and where control is.
RefineFrame(it, partition, changed, rounds, pc) ==
  [it |-> it, partition |-> partition, changed |-> changed, rounds |-> rounds, pc |-> pc]

\* A call of bisimulation_partition_refinement has not returned yet.
Refining ==
  /\ calls # <<>>
  /\ calls[Len(calls)].op = "bisimulation_partition_refinement"
  /\ calls[Len(calls)].kw.pc = "while"

InitQuotient ==
  /\ \E M \in QuotientModels : heap = <<M>>
  /\ calls = <<>>

\* bisimulation_partition_refinement(heap[t]) up to the while loop.
RefineStart ==
  \E t \in 1..Len(heap) : \E it \in Orders(heap[t]) :
    /\ Len(calls) < MaxCalls
    /\ ~Refining
    /\ heap[t].tag = "mdp"
    /\ heap' = heap
    /\ calls' = Append(calls,
         Call("bisimulation_partition_refinement", <<t>>,
              RefineFrame(it, initial_partition(heap[t]), TRUE, 0, "while"),
              "None", 0, heap))

\* RefineRound without `changed = False` at the top of the pass.
RefineRound_changed_never_reset ==
  /\ Refining
  /\ calls[Len(calls)].kw.changed
  /\ calls[Len(calls)].kw.rounds < MaxRounds
  /\ LET c == calls[Len(calls)]
         r == refine_blocks(heap[c.args[1]], c.kw.partition, c.kw.it, c.kw.partition,
                            <<>>, FALSE)
     IN calls' = [calls EXCEPT ![Len(calls)].kw =
                    RefineFrame(c.kw.it, r.partition, TRUE, c.kw.rounds + 1, "while")]
  /\ heap' = heap

\* One pass of `while changed`.
RefineRound ==
  /\ Refining
  /\ calls[Len(calls)].kw.changed
  /\ calls[Len(calls)].kw.rounds < MaxRounds
  /\ LET c == calls[Len(calls)]
         r == refine_blocks(heap[c.args[1]], c.kw.partition, c.kw.it, c.kw.partition,
                            <<>>, FALSE)
     IN calls' = [calls EXCEPT ![Len(calls)].kw =
                    RefineFrame(c.kw.it, r.partition, r.changed, c.kw.rounds + 1, "while")]
  /\ heap' = heap

\* `changed` is false: return partition.
RefineReturn ==
  /\ Refining
  /\ ~calls[Len(calls)].kw.changed
  /\ calls' = [calls EXCEPT ![Len(calls)].kw.pc = "return"]
  /\ heap' = heap

NextQuotient ==
  \/ RefineStart
  \/ RefineRound
  \/ RefineReturn
  \/ (~Refining /\ BuildQuotient)

SpecQuotient == InitQuotient /\ [][NextQuotient]_vars

\* The stepwise refinement returns what the function computes in one go.
RefineAgrees ==
  (calls # <<>> /\ calls[Len(calls)].op = "bisimulation_partition_refinement"
     /\ calls[Len(calls)].kw.pc = "return") =>
    calls[Len(calls)].kw.partition
      = bisimulation_partition_refinement(heap[calls[Len(calls)].args[1]], calls[Len(calls)].kw.it)

\* The running or returned call of bisimulation_partition_refinement, the
\* model it was applied to and that model's labels.
InRefinement == calls # <<>> /\ Last.op = "bisimulation_partition_refinement"
Returned == InRefinement /\ Last.kw.pc = "return"
Refined == heap[Last.args[1]]
BlocksOf(partition) == {partition[i] : i \in 1..Len(partition)}

IsPartition(partition, S) ==
  /\ \A i \in 1..Len(partition) : partition[i] # {}
  /\ \A i, j \in 1..Len(partition) : i # j => partition[i] \cap partition[j] = {}
  /\ UNION BlocksOf(partition) = S

\* C12: the initial grouping, the partition after every pass of the loop
\* and the partition returned are partitions of the model's state labels:
\* non-empty, pairwise disjoint blocks whose union is the set of all labels.
C12_AlwaysAPartition ==
  InRefinement => IsPartition(Last.kw.partition, Labels(Refined))

\* A pass has split a block and left three blocks or more, one of them
\* with several states.
C12_Witness ==
  InRefinement /\ Last.kw.rounds >= 1 /\ Last.kw.changed /\ Len(Last.kw.partition) >= 3
    /\ \E i \in 1..Len(Last.kw.partition) : Cardinality(Last.kw.partition[i]) >= 2

\* The set of blocks Q keeps states apart that differ in their action labels
\* or, for some action label, in the total weight sent to some block of Q.
Stable(mdp, Q) ==
  \A B \in Q : \A s, u \in B :
    /\ DOMAIN mdp.states[s].actions = DOMAIN mdp.states[u].actions
    /\ \A a \in DOMAIN mdp.states[s].actions : \A B2 \in Q :
         RSum(mdp.states[s].actions[a].measure,
              DOMAIN mdp.states[s].actions[a].measure \cap B2)
           = RSum(mdp.states[u].actions[a].measure,
                  DOMAIN mdp.states[u].actions[a].measure \cap B2)

\* All partitions of the set S, each as the classes of a colouring of S.
SetPartitions(S) ==
  {{{s \in S : c[s] = k} : k \in {c[s] : s \in S}} : c \in [S -> 1..Cardinality(S)]}

\* C13: the partition returned is stable (same action labels and, per action
\* label, the same total weight into every block) and every stable partition
\* of the labels refines it; rewards play no part.
C13_CoarsestStablePartition ==
  Returned =>
    /\ Stable(Refined, BlocksOf(Last.kw.partition))
    /\ \A Q \in SetPartitions(Labels(Refined)) :
         Stable(Refined, Q) => \A B \in Q : \E B2 \in BlocksOf(Last.kw.partition) : B \subseteq B2

\* A returned block holds two states whose actions differ in reward.
C13_Witness ==
  Returned /\ \E B \in BlocksOf(Last.kw.partition) : \E s, u \in B :
    \E a \in DOMAIN Refined.states[s].actions :
      Refined.states[s].actions[a].reward # Refined.states[u].actions[a].reward

\* C14 as stated: a call that returned made at most (state count - 1) passes
\* of the loop.
C14_RoundsBelowStateCount ==
  Returned => Last.kw.rounds <= Cardinality(Labels(Refined)) - 1

\* The passes made so far that split a block: every pass but one that left
\* `changed` false.
SplittingRounds == IF Last.kw.changed THEN Last.kw.rounds ELSE Last.kw.rounds - 1

\* C14, amended: the call made at most (state count) passes of the loop, at
\* most (state count - 1) of which split a block, and the loop comes to its
\* end: while control is in the loop either the return is due, or a pass is
\* due that fewer than (state count) passes went before (the cap of the
\* model on the passes is not what ends a run).
C14_TerminatesWithinStateCountRounds ==
  InRefinement =>
    /\ Last.kw.rounds <= Cardinality(Labels(Refined))
    /\ SplittingRounds <= Cardinality(Labels(Refined)) - 1
    /\ Refining =>
         \/ ~Last.kw.changed
         \/ /\ Last.kw.rounds < Cardinality(Labels(Refined))
            /\ Last.kw.rounds < MaxRounds

\* A call that returned after as many passes as the model has states.
C14_Witness ==
  Returned /\ Last.kw.rounds = Cardinality(Labels(Refined)) /\ Last.kw.rounds >= 2

\* The call made last is build_quotient_mdp(heap[1]) and it returned.
QuotientBuilt == calls # <<>> /\ Last.op = "build_quotient_mdp" /\ Last.exc = "None"

\* C15: the refinement of a model returned by build_quotient_mdp returns one
\* block for every state of that model, each block a singleton.
C15_QuotientIsAFixpoint ==
  (Returned /\ Len(calls) = 2 /\ calls[1].op = "build_quotient_mdp"
     /\ Last.args = <<calls[1].ref>>) =>
    /\ Len(Last.kw.partition) = Cardinality(Labels(Refined))
    /\ \A i \in 1..Len(Last.kw.partition) : Cardinality(Last.kw.partition[i]) = 1

\* The refinement of a quotient that has several states and fewer states
\* than the model it was built from has returned.
C15_Witness ==
  /\ Returned /\ Len(calls) = 2 /\ calls[1].op = "build_quotient_mdp"
  /\ Last.args = <<calls[1].ref>>
  /\ Cardinality(Labels(Refined)) >= 2
  /\ Cardinality(Labels(Refined)) < Cardinality(Labels(heap[1]))

\* The sum of all weights of a measure.
TotalWeight(measure) == RSum(measure, DOMAIN measure)

\* C16: in the model returned by build_quotient_mdp, for some order of the
\* blocks and some representative of each block, the measure of every
\* action of block i's state has only block ids as keys and the same total
\* weight as the representative's measure of that action.
C16_QuotientMassConserved ==
  QuotientBuilt =>
    \E it \in Orders(Operand(1)) :
      LET partition == bisimulation_partition_refinement(Operand(1), it)
      IN /\ Labels(Result) = {Atom(i - 1) : i \in 1..Len(partition)}
         /\ \A i \in 1..Len(partition) : \E rep \in partition[i] :
              /\ DOMAIN Result.states[Atom(i - 1)].actions = DOMAIN Operand(1).states[rep].actions
              /\ \A a \in DOMAIN Operand(1).states[rep].actions :
                   /\ DOMAIN Result.states[Atom(i - 1)].actions[a].measure \subseteq Labels(Result)
                   /\ TotalWeight(Result.states[Atom(i - 1)].actions[a].measure)
                        = TotalWeight(Operand(1).states[rep].actions[a].measure)

\* C17: in the model returned by build_quotient_mdp, for some order of the
\* blocks and some representative of each block, every action of block i's
\* state has the reward of the representative's action of that label.
C17_QuotientRewardOfRepresentative ==
  QuotientBuilt =>
    \E it \in Orders(Operand(1)) :
      LET partition == bisimulation_partition_refinement(Operand(1), it)
      IN /\ Labels(Result) = {Atom(i - 1) : i \in 1..Len(partition)}
         /\ \A i \in 1..Len(partition) : \E rep \in partition[i] :
              /\ DOMAIN Result.states[Atom(i - 1)].actions = DOMAIN Operand(1).states[rep].actions
              /\ \A a \in DOMAIN Operand(1).states[rep].actions :
                   Result.states[Atom(i - 1)].actions[a].reward
                     = Operand(1).states[rep].actions[a].reward

(***************************************************************************)
(* mdp.py: MDPMorphism, and the sessions that check morphisms.             *)
(***************************************************************************)
RSub(x, y) == RAdd(x, <<-y[1], y[2]>>)
RAbs(x) == <<IF x[1] < 0 THEN -x[1] ELSE x[1], x[2]>>
RLess(x, y) ==
  LET g == GCD(x[2], y[2])
  IN x[1] * (y[2] \div g) < y[1] * (x[2] \div g)

\* The default tol=1e-6 of _measures_equal: 1 / TolInverse.
TolInverse == 1000000
DefaultTol == Rat(1, TolInverse)

\* MDPMorphism.__init__; f and g are functions on labels.
MDPMorphism(source, target, f, g) == [source |-> source, target |-> target, f |-> f, g |-> g]

\* dict.get(k, 0)
Get(d, k) == IF k \in DOMAIN d THEN d[k] ELSE W(0)

\* pushforward whose loop overwrites result[s2] instead of adding to it.
RECURSIVE pushforward_loop_overwrites(_, _, _, _)
pushforward_loop_overwrites(f, measure, todo, result) ==
  IF todo = <<>> THEN result
  ELSE LET s1 == Head(todo)
           s2 == f[s1]
       IN pushforward_loop_overwrites(f, measure, Tail(todo), (s2 :> measure[s1]) @@ result)

\* The loop of MDPMorphism.pushforward over the entries of `measure`.
RECURSIVE pushforward_loop(_, _, _, _)
pushforward_loop(f, measure, todo, result) ==
  IF todo = <<>> THEN result
  ELSE LET s1 == Head(todo)
           s2 == f[s1]
       IN pushforward_loop(f, measure, Tail(todo),
                           (s2 :> RAdd(Get(result, s2), measure[s1])) @@ result)

\* MDPMorphism.pushforward
pushforward(f, measure) == pushforward_loop(f, measure, SetToSeq(DOMAIN measure), EmptyDict)

\* MDPMorphism._measures_equal
_measures_equal(mu1, mu2, tol) ==
  LET keys == DOMAIN mu1 \cup DOMAIN mu2
  IN \A k \in keys : RLess(RAbs(RSub(Get(mu1, k), Get(mu2, k))), tol)

\* is_valid whose reward test is inverted (== for !=).
is_valid_reward_test_inverted(m) ==
  \A s_label1 \in DOMAIN m.source.states :
    \A a_label1 \in DOMAIN m.source.states[s_label1].actions :
      LET a_label2 == m.g[a_label1]
          s_label2 == m.f[s_label1]
          a_obj1 == m.source.states[s_label1].actions[a_label1]
      IN IF s_label2 \notin DOMAIN m.target.states THEN FALSE
         ELSE IF a_label2 \notin DOMAIN m.target.states[s_label2].actions THEN FALSE
         ELSE LET a_obj2 == m.target.states[s_label2].actions[a_label2]
              IN IF a_obj1.reward = a_obj2.reward THEN FALSE
                 ELSE _measures_equal(pushforward(m.f, a_obj1.measure), a_obj2.measure,
                                      DefaultTol)

\* MDPMorphism.is_valid: False as soon as one action of the source fails a
\* test (a KeyError of the lookup is caught), True when none does.
is_valid(m) ==
  \A s_label1 \in DOMAIN m.source.states :
    \A a_label1 \in DOMAIN m.source.states[s_label1].actions :
      LET a_label2 == m.g[a_label1]
          s_label2 == m.f[s_label1]
          a_obj1 == m.source.states[s_label1].actions[a_label1]
      IN IF s_label2 \notin DOMAIN m.target.states THEN FALSE
         ELSE IF a_label2 \notin DOMAIN m.target.states[s_label2].actions THEN FALSE
         ELSE LET a_obj2 == m.target.states[s_label2].actions[a_label2]
              IN IF a_obj1.reward # a_obj2.reward THEN FALSE
                 ELSE _measures_equal(pushforward(m.f, a_obj1.measure), a_obj2.measure,
                                      DefaultTol)

\* The models of these sessions: two states whose action's weights merge
\* under a constant f; the one-state models they map onto, with the same
\* and with another reward; targets that carry an extra weight of exactly
\* the tolerance and of half the tolerance; a model with two action labels.
MorphismDescriptions ==
  { Description(<<Atom(0), Atom(1)>>,
      (Atom(0) :> ("a" :> PairEntry(Atom(0) :> W(1) @@ Atom(1) :> W(1), 1))) @@
      (Atom(1) :> ("a" :> PairEntry(Atom(0) :> W(2), 1)))),
    Description(<<Atom(0)>>,
      Atom(0) :> ("a" :> PairEntry(Atom(0) :> W(2), 1))),
    Description(<<Atom(0)>>,
      Atom(0) :> ("a" :> PairEntry(Atom(0) :> W(2), 2))),
    Description(<<Atom(0), Atom(1)>>,
      (Atom(0) :> ("a" :> PairEntry(Atom(0) :> W(2) @@ Atom(1) :> DefaultTol, 1))) @@
      (Atom(1) :> EmptyDict)),
    Description(<<Atom(0), Atom(1)>>,
      (Atom(0) :> ("a" :> PairEntry(Atom(0) :> W(2) @@ Atom(1) :> RHalf(DefaultTol), 1))) @@
      (Atom(1) :> EmptyDict)),
    Description(<<Atom(0), Atom(1)>>,
      (Atom(0) :> ("a" :> PairEntry(Atom(0) :> W(1) @@ Atom(1) :> W(3), 2))) @@
      (Atom(1) :> ("a" :> PairEntry(Atom(1) :> W(1), 0) @@
                   "b" :> DistEntry(Atom(0) :> W(0) @@ Atom(1) :> W(2))))) }

MorphismModels == {MDP(d).val : d \in MorphismDescriptions}

\* The maps f on state labels and g on action labels that a session draws.
StateMaps == [{Atom(0), Atom(1)} -> {Atom(0), Atom(1)}]
ActionMaps == [{"a", "b"} -> {"a", "b"}]

InitMorphism ==
  /\ \E M1 \in MorphismModels, M2 \in MorphismModels : heap = <<M1, M2>>
  /\ calls = <<>>

\* MDPMorphism(heap[src], heap[tgt], f, g).is_valid(); the call record keeps
\* f, g and the value returned.
IsValid ==
  \E src \in 1..Len(heap), tgt \in 1..Len(heap), f \in StateMaps, g \in ActionMaps :
    /\ calls = <<>>
    /\ heap' = heap
    /\ calls' = Append(calls,
         [Call("is_valid", <<src, tgt>>, <<>>, "None", 0, heap)
            EXCEPT !.kw = [f |-> f, g |-> g,
                           val |-> is_valid(MDPMorphism(heap[src], heap[tgt], f, g))]])

NextMorphism == IsValid

SpecMorphism == InitMorphism /\ [][NextMorphism]_vars

\* C18: the morphism from a model to itself with f and g the identity
\* passes is_valid.
C18_IdentityMorphismIsValid ==
  (Called("is_valid", 2) /\ Last.args[1] = Last.args[2]
     /\ (\A l \in DOMAIN Last.kw.f : Last.kw.f[l] = l)
     /\ (\A a \in DOMAIN Last.kw.g : Last.kw.g[a] = a)) =>
    Last.kw.val = TRUE

\* The identity morphism of a model with two action labels and measures of
\* two targets was checked.
C18_Witness ==
  /\ Called("is_valid", 2) /\ Last.args[1] = Last.args[2]
  /\ (\A l \in DOMAIN Last.kw.f : Last.kw.f[l] = l)
  /\ (\A a \in DOMAIN Last.kw.g : Last.kw.g[a] = a)
  /\ \E l \in Labels(Operand(Last.args[1])) :
       /\ NActs(Operand(Last.args[1]), l) = 2
       /\ \E a \in DOMAIN Operand(Last.args[1]).states[l].actions :
            Cardinality(DOMAIN Operand(Last.args[1]).states[l].actions[a].measure) = 2

\* The weight that the measure mu sends, through f, to the label k.
PushedWeight(f, mu, k) == RSum(mu, {s \in DOMAIN mu : f[s] = k})

\* For every action a1 of every state s1 of the source: the target has the
\* action g(a1) at f(s1), with a1's reward, and on every label that f maps a
\* target of a1 to or that is a target of g(a1) the two weights are Close.
MorphismConditions(source, target, f, g, Close(_, _)) ==
  \A s1 \in Labels(source) : \A a1 \in DOMAIN source.states[s1].actions :
    /\ f[s1] \in Labels(target)
    /\ g[a1] \in DOMAIN target.states[f[s1]].actions
    /\ source.states[s1].actions[a1].reward = target.states[f[s1]].actions[g[a1]].reward
    /\ LET mu1 == source.states[s1].actions[a1].measure
           mu2 == target.states[f[s1]].actions[g[a1]].measure
       IN \A k \in {f[s] : s \in DOMAIN mu1} \cup DOMAIN mu2 :
            Close(PushedWeight(f, mu1, k), Get(mu2, k))

\* C19 as stated: is_valid returns true exactly when the conditions hold with
\* weights that differ by no more than the tolerance.
C19_ValidIffWithinTolerance ==
  Called("is_valid", 2) =>
    LET AtMostTol(x, y) == ~RLess(DefaultTol, RAbs(RSub(x, y)))
    IN Last.kw.val = MorphismConditions(Operand(Last.args[1]), Operand(Last.args[2]),
                                        Last.kw.f, Last.kw.g, AtMostTol)

\* C19, amended: is_valid returns true exactly when the conditions hold with
\* weights that differ by less than the tolerance, and raises nothing.
C19_ValidIffBelowTolerance ==
  Called("is_valid", 2) =>
    LET BelowTol(x, y) == RLess(RAbs(RSub(x, y)), DefaultTol)
    IN /\ Last.exc = "None"
       /\ Last.kw.val = MorphismConditions(Operand(Last.args[1]), Operand(Last.args[2]),
                                           Last.kw.f, Last.kw.g, BelowTol)

\* A morphism that maps two targets of a measure to one label was found
\* valid.
C19_Witness ==
  /\ Called("is_valid", 2) /\ Last.kw.val = TRUE
  /\ \E s1 \in Labels(Operand(Last.args[1])) :
       \E a1 \in DOMAIN Operand(Last.args[1]).states[s1].actions :
         LET mu1 == Operand(Last.args[1]).states[s1].actions[a1].measure
         IN \E s, u \in DOMAIN mu1 : s # u /\ Last.kw.f[s] = Last.kw.f[u]
                                       /\ RPos(mu1[s]) /\ RPos(mu1[u])

(***************************************************************************)
(* metric.py: domain_specific_generalization.                              *)
(***************************************************************************)
\* An error value: <<0, n>> is the number n, <<1, 0>> is float("inf").
Fin(n) == <<0, n>>
Inf == <<1, 0>>
ErrLess(x, y) == x[1] < y[1] \/ (x[1] = 0 /\ y[1] = 0 /\ x[2] < y[2])
ErrMax(x, y) == IF ErrLess(x, y) THEN y ELSE x

\* The metrics a session passes: dR is the distance of two rewards, W the
\* discrete distance of two measures.
dR(R1, R2) == IF R1 < R2 THEN R2 - R1 ELSE R1 - R2
Wd(mu1, mu2) == IF mu1 = mu2 THEN 0 ELSE 1

\* metric.pushforward(measure, f)
metric_pushforward(measure, f) == pushforward_loop(f, measure, SetToSeq(DOMAIN measure), EmptyDict)

\* [act for state in G.states.values() for act in state.actions], as a set.
ActionChoices(G) == UNION {DOMAIN G.states[l].actions : l \in DOMAIN G.states}

\* The (state label, action label) pairs the error loop visits.
ActionPairs(M) ==
  {p \in (DOMAIN M.states) \X ActionLabels(M) : p[2] \in DOMAIN M.states[p[1]].actions}

\* What random.choice returns while the error loop handles one pair: f and
\* g draw anew at every call, so the pair has its own action g(a1), its own
\* two states f(state_label) and its own states for the keys of the measure
\* pushed forward.
PairDraws(M, G, p) ==
  [g : ActionChoices(G),
   f1 : DOMAIN G.states,
   f2 : DOMAIN G.states,
   fp : [DOMAIN M.states[p[1]].actions[p[2]].measure -> DOMAIN G.states]]

\* The lookups G.states[f(state_label)].actions[a2] of a pair raise KeyError.
LookupFails(G, d) ==
  \/ d.g \notin DOMAIN G.states[d.f1].actions
  \/ d.g \notin DOMAIN G.states[d.f2].actions

\* What a pair contributes to `error`: e = dR(R1, R2) + W(pushed, T2), or inf
\* on KeyError.
pair_error(M, G, d, p) ==
  IF LookupFails(G, d) THEN Inf
  ELSE LET a1 == M.states[p[1]].actions[p[2]]
           R2 == G.states[d.f1].actions[d.g].reward
           T2 == G.states[d.f2].actions[d.g].measure
       IN Fin(dR(a1.reward, R2) + Wd(metric_pushforward(a1.measure, d.fp), T2))

\* The maximum of a finite set of naturals, 0 for the empty set.
MaxOf(S) == IF S = {} THEN 0 ELSE CHOOSE x \in S : \A y \in S : y <= x

\* The values `error` can have after the loops of one trial.  A KeyError
\* sets it to inf and breaks the loop over the actions of that state only,
\* and max keeps it inf; the draws of different pairs are independent.
TrialErrors(M, G) ==
  LET outcomes(p) == {pair_error(M, G, d, p) : d \in PairDraws(M, G, p)}
      all == UNION {outcomes(p) : p \in ActionPairs(M)}
      runs == {o \in [ActionPairs(M) -> all] : \A p \in ActionPairs(M) : o[p] \in outcomes(p)}
  IN {IF \E p \in ActionPairs(M) : o[p] = Inf THEN Inf
      ELSE Fin(MaxOf({o[p][2] : p \in ActionPairs(M)})) : o \in runs}

\* The number of trials a session asks for is capped in the model.
MaxTrials == 2

\* The frame of a running domain_specific_generalization(M, G_list, dR, W,
\* num_trials): the position of G in G_list, the trials made for it, the
\* locals best_local_error and best_error, G_best (0 while unbound) and
\* where control is.
GeneralizeFrame(G, trial, num_trials, best_local_error, best_error, G_best, pc) ==
  [G |-> G, trial |-> trial, num_trials |-> num_trials,
   best_local_error |-> best_local_error, best_error |-> best_error,
   G_best |-> G_best, pc |-> pc]

GeneralizationModels ==
  {path_mdp(1).val, path_mdp(2).val, cycle_mdp(2).val,
   MDP(Description(<<Atom(0)>>, Atom(0) :> ("next" :> PairEntry(Atom(0) :> W(1), 2)))).val}

InitGeneralization ==
  /\ \E M \in GeneralizationModels, G1 \in GeneralizationModels, G2 \in GeneralizationModels :
       heap = <<M, G1, G2>>
  /\ calls = <<>>

\* domain_specific_generalization(heap[1], [heap[2], ...], dR, W, num_trials)
\* up to the first trial.
GeneralizeStart ==
  \E n \in 1..2, num_trials \in 1..MaxTrials :
    /\ calls = <<>>
    /\ heap' = heap
    /\ calls' = <<Call("domain_specific_generalization", [j \in 1..(n + 1) |-> j],
                       GeneralizeFrame(2, 0, num_trials, Inf, Inf, 0, "trials"),
                       "None", 0, heap)>>

\* The frame of the running call.
Generalizing(pc) ==
  /\ calls # <<>>
  /\ calls[1].op = "domain_specific_generalization"
  /\ calls[1].kw.pc = pc

\* One pass of `for _ in range(num_trials)`: g(a1) raises IndexError when G
\* has no action to choose from.
Trial ==
  /\ Generalizing("trials")
  /\ calls[1].kw.trial < calls[1].kw.num_trials
  /\ LET k == calls[1].kw
         M == heap[1]
         G == heap[k.G]
     IN IF ActionPairs(M) # {} /\ ActionChoices(G) = {}
        THEN calls' = [calls EXCEPT ![1].exc = "IndexError", ![1].kw.pc = "done"]
        ELSE \E error \in TrialErrors(M, G) :
               calls' = [calls EXCEPT ![1].kw.trial = @ + 1,
                           ![1].kw.best_local_error =
                              IF ErrLess(error, @) THEN error ELSE @]
  /\ heap' = heap

\* After the trials of G: track the global best, then the next G.
CandidateDone ==
  /\ Generalizing("trials")
  /\ calls[1].kw.trial = calls[1].kw.num_trials
  /\ LET k == calls[1].kw
         better == ErrLess(k.best_local_error, k.best_error)
     IN calls' = [calls EXCEPT ![1].kw =
          GeneralizeFrame(k.G + 1, 0, k.num_trials, Inf,
                          IF better THEN k.best_local_error ELSE k.best_error,
                          IF better THEN k.G ELSE k.G_best,
                          IF k.G = Len(calls[1].args) THEN "return" ELSE "trials")]
  /\ heap' = heap

\* return MetricMDPMorphism(M, G_best, ...): reading G_best while it is
\* unbound raises UnboundLocalError.
GeneralizeReturn ==
  /\ Generalizing("return")
  /\ calls' = [calls EXCEPT ![1].exc = IF calls[1].kw.G_best = 0 THEN "UnboundLocalError"
                                       ELSE "None",
                            ![1].kw.pc = "done"]
  /\ heap' = heap

NextGeneralization ==
  \/ GeneralizeStart
  \/ Trial
  \/ CandidateDone
  \/ GeneralizeReturn

SpecGeneralization == InitGeneralization /\ [][NextGeneralization]_vars

\* C20: a call of domain_specific_generalization with a non-empty list of
\* candidates and at least one trial ends without an exception and returns
\* a morphism into one of the candidates, whatever the trials draw.
C20_GeneralizationNeverFails ==
  Generalizing("done") =>
    /\ calls[1].exc = "None"
    /\ calls[1].kw.G_best \in 2..Len(calls[1].args)
(***************************************************************************)
(* Sessions that construct models from descriptions.                       *)
(***************************************************************************)
\* Pairs of state labels: atomic labels, the pair labels of a binary product
\* and the flat triples of an n-ary product.
LabelFamilies ==
  { <<Atom(0), Atom(1)>>,
    <<Tuple(<<Atom(0), Atom(0)>>), Tuple(<<Atom(0), Atom(1)>>)>>,
    <<Tuple(<<Atom(0), Atom(0), Atom(0)>>), Tuple(<<Atom(0), Atom(0), Atom(1)>>)>> }

\* Descriptions of two states: the action "a" of the first state in each of
\* the three shapes, the second state with or without an action back.
BuildDescriptions ==
  UNION { { Description(L, (L[1] :> ("a" :> e)) @@ (L[2] :> back)) :
              e \in {DistEntry(L[2] :> W(2)), DistEntry(EmptyDict),
                     PairEntry(L[1] :> W(1) @@ L[2] :> W(1), 5),
                     TargetEntry(L[2]), TargetEntry(L[1])},
              back \in {EmptyDict, "b" :> TargetEntry(L[1])} } :
          L \in LabelFamilies }

InitConstruct ==
  /\ heap = <<>>
  /\ calls = <<>>

\* MDP(description); the call record keeps the description.
Construct ==
  \E description \in BuildDescriptions :
    LET r == MDP(description)
    IN /\ Len(calls) < MaxCalls
       /\ heap' = IF r.exc = "None" THEN Append(heap, r.val) ELSE heap
       /\ calls' = Append(calls, Call("MDP", <<>>, description, r.exc,
                                      IF r.exc = "None" THEN Len(heap) + 1 ELSE 0, heap))

NextConstruct == Construct

SpecConstruct == InitConstruct /\ [][NextConstruct]_vars

\* C21: MDP(description) returns, and every action entry of the description,
\* whatever the state labels are, is built by its shape: a distribution gives
\* that distribution with reward 0, a (distribution, reward) pair gives that
\* distribution with that reward, a bare target t gives {t -> 1} with reward 0.
C21_EntryShapesMaterialized ==
  \A i \in 1..Len(calls) :
    calls[i].op = "MDP" =>
      /\ calls[i].exc = "None"
      /\ LET d == calls[i].kw
             M == heap[calls[i].ref]
         IN \A l \in SeqRange(d.order) : \A a \in DOMAIN d.entries[l] :
              LET e == d.entries[l][a]
                  built == M.states[l].actions[a]
              IN /\ e.shape = "dict" => built = [measure |-> e.measure, reward |-> 0]
                 /\ e.shape = "tuple" => built = [measure |-> e.measure, reward |-> e.reward]
                 /\ e.shape = "other" =>
                      /\ PyType(e) = "other"     \* taken as a deterministic target
                      /\ built = [measure |-> [t \in {e.target} |-> <<1, 1>>], reward |-> 0]

(***************************************************************************)
(* More claims about the automaton product.                                *)
(***************************************************************************)
\* The edges the claim gives the twisted action of base action `action` at
\* automaton state q: one per target on which the automaton has a step.
ProductEdges(automaton, L, q, action) ==
  LET sync == {t \in DOMAIN action.measure : delta(automaton, q, L[t]) # "None"}
  IN [e \in {Pair(t, delta(automaton, q, L[t])) : t \in sync} |-> action.measure[e.base]]

\* C23: when the constructor of the automaton product ends, for every
\* reachable pair (s, q) and every base action a of s that has an edge, the
\* twisted state (s, q) has the action a, its measure is exactly the edges
\* (t, delta(q, L(t))) -> w of a's targets with the base weights, and its
\* reward is a's reward.
C23_TwistedEdgesAndReward ==
  Called("TwistedMDP", 1) =>
    \A p \in ReachablePairs(Operand(1), Last.kw.automaton, Last.kw.label_func) :
      \A a \in DOMAIN Operand(1).states[p.base].actions :
        LET action == Operand(1).states[p.base].actions[a]
            edges == ProductEdges(Last.kw.automaton, Last.kw.label_func, p.auto, action)
        IN edges # EmptyDict =>
             /\ p \in DOMAIN Last.kw.states
             /\ a \in DOMAIN Last.kw.states[p].actions
             /\ Last.kw.states[p].actions[a].measure = edges
             /\ Last.kw.states[p].actions[a].reward = action.reward

(***************************************************************************)
(* More claims about partition refinement and the quotient.                *)
(***************************************************************************)
\* C22: every pass of the loop only splits blocks: each block of the
\* partition after the pass (and of the partition returned) is a subset of
\* exactly one block of the partition before it, so states once separated
\* are never put together again.
C22_BlocksOnlySplit ==
  [][(InRefinement /\ Len(calls') = Len(calls)) =>
       \A B \in BlocksOf(calls'[Len(calls')].kw.partition) :
         Cardinality({B0 \in BlocksOf(Last.kw.partition) : B \subseteq B0}) = 1]_vars

\* Two passes have split blocks: the partition has at least two blocks more
\* than the initial grouping by action labels.
C22_Witness ==
  InRefinement /\ Last.kw.rounds >= 2
    /\ Len(Last.kw.partition) >= Len(initial_partition(Refined)) + 2

\* The measure of an action summed by the block of each target: the map from
\* the blocks of `partition` that hold a target to the total weight sent there.
BlockWeights(partition, measure) ==
  [i \in {j \in 1..Len(partition) : DOMAIN measure \cap partition[j] # {}} |->
     RSum(measure, DOMAIN measure \cap partition[i])]

RECURSIVE relabel_states_keeps_existing(_, _)
relabel_states_keeps_existing(M, relabeling_tuples) ==
  IF relabeling_tuples = <<>> THEN M
  ELSE LET old == Head(relabeling_tuples)[1]
           new == Head(relabeling_tuples)[2]
       IN IF old \notin DOMAIN M.states
          THEN relabel_states_keeps_existing(M, Tail(relabeling_tuples))
          ELSE LET state == M.states[old]
                   rest == DOMAIN M.states \ {old}
                   popped == SelectSeq(M.order, LAMBDA x : x # old)
                   order2 == IF new \in rest THEN popped ELSE Append(popped, new)
                   states2 == [l \in rest \cup {new} |->
                                 IF l \in rest THEN M.states[l] ELSE state]
               IN relabel_states_keeps_existing([M EXCEPT !.order = order2, !.states = states2],
                                                Tail(relabeling_tuples))

\* MDP.relabel_states: the model object after the loop over the pairs.  The
\* measures of the actions are not touched.
RECURSIVE relabel_states(_, _)
relabel_states(M, relabeling_tuples) ==
  IF relabeling_tuples = <<>> THEN M
  ELSE LET old == Head(relabeling_tuples)[1]
           new == Head(relabeling_tuples)[2]
       IN IF old \notin DOMAIN M.states
          THEN relabel_states(M, Tail(relabeling_tuples))
          ELSE LET state == M.states[old]
                   rest == DOMAIN M.states \ {old}
                   popped == SelectSeq(M.order, LAMBDA x : x # old)
                   order2 == IF new \in rest THEN popped ELSE Append(popped, new)
                   states2 == [l \in rest \cup {new} |->
                                 IF l = new THEN state ELSE M.states[l]]
               IN relabel_states([M EXCEPT !.order = order2, !.states = states2],
                                 Tail(relabeling_tuples))

\* Pairs per rename list and relabeling calls per session.
MaxRenames == 2
MaxRelabelCalls == 1

\* The models that are relabelled: chains, a cycle, and a chain whose states
\* were inserted from the last to the first.
RelabelModels ==
  {path_mdp(n).val : n \in 2..MaxN} \cup {cycle_mdp(MaxN).val}
  \cup {MDP(Description(<<Atom(2), Atom(1), Atom(0)>>,
          (Atom(2) :> ("prev" :> TargetEntry(Atom(1)))) @@
          (Atom(1) :> ("prev" :> TargetEntry(Atom(0)))) @@ (Atom(0) :> EmptyDict))).val}

\* (old, new) pairs: a fresh new label, a new label that is taken, an old
\* label that is absent, a label renamed to itself.
RenamePairs ==
  { <<Atom(0), Atom(5)>>, <<Atom(0), Atom(1)>>, <<Atom(5), Atom(1)>>,
    <<Atom(1), Atom(1)>>, <<Atom(1), Atom(0)>> }

RenameLists == UNION {[1..n -> RenamePairs] : n \in 0..MaxRenames}

\* Relabeling functions on int labels, each by its values on the labels of M:
\* x + 1, (x + 1) % len, x + 10 and the constant 0.
RelabelFunctions(M) ==
  { [l \in SeqRange(M.order) |-> Ok(Atom(l.a + 1))],
    [l \in SeqRange(M.order) |-> Ok(Atom((l.a + 1) % Len(M.order)))],
    [l \in SeqRange(M.order) |-> Ok(Atom(l.a + 10))],
    [l \in SeqRange(M.order) |-> Ok(Atom(0))] }

InitRelabel ==
  /\ \E M \in RelabelModels : heap = <<M>>
  /\ calls = <<>>

\* heap[t].relabel_states(relabeling_tuples)
RelabelStates ==
  \E t \in 1..Len(heap), relabeling_tuples \in RenameLists :
    /\ Len(calls) < MaxRelabelCalls
    /\ heap' = [heap EXCEPT ![t] = relabel_states(heap[t], relabeling_tuples)]
    /\ calls' = Append(calls, Call("relabel_states", <<t>>, relabeling_tuples, "None", 0, heap))

\* heap[t].relabel_all_states(relabeling_function)
RelabelAllStatesBy ==
  \E t \in 1..Len(heap) : \E relabeling_function \in RelabelFunctions(heap[t]) :
    LET r == relabel_all_states(heap[t], relabeling_function)
    IN /\ Len(calls) < MaxRelabelCalls
       /\ heap' = [heap EXCEPT ![t] = r.val]
       /\ calls' = Append(calls, Call("relabel_all_states", <<t>>, relabeling_function,
                                      r.exc, 0, heap))

NextRelabel ==
  \/ RelabelStates
  \/ RelabelAllStatesBy

SpecRelabel == InitRelabel /\ [][NextRelabel]_vars

\* The model a relabeling call was applied to, before and after the call.
Before == Last.pre[Last.args[1]]
After == heap[Last.args[1]]

\* The dict `states` after the rename (old, new) as the claim describes it.
RenamePair(states, old, new) ==
  IF old \in DOMAIN states
  THEN [l \in (DOMAIN states \ {old}) \cup {new} |->
          IF l = new THEN states[old] ELSE states[l]]
  ELSE states

\* `after` is `states` with the renames of `tuples` made one after the other;
\* with `strict`, every rename of a label that is present removes that label.
RECURSIVE RenamedInOrder(_, _, _, _)
RenamedInOrder(states, tuples, after, strict) ==
  IF tuples = <<>> THEN after = states
  ELSE LET old == Head(tuples)[1]
           new == Head(tuples)[2]
           mid == RenamePair(states, old, new)
       IN /\ (strict /\ old \in DOMAIN states) => old \notin DOMAIN mid
          /\ RenamedInOrder(mid, Tail(tuples), after, strict)

\* C24 as stated: relabel_states works in place and makes the renames of the
\* list in order; a pair whose old label is present moves that state to the
\* new label, replacing a state found there, and the old label is no longer
\* a label; a pair whose old label is absent changes nothing; other states
\* are untouched.
C24_RenamesInOrder ==
  Called("relabel_states", 1) =>
    /\ Len(heap) = Len(Last.pre)
    /\ RenamedInOrder(Before.states, Last.kw, After.states, TRUE)

\* C24, amended: the same, but a pair (x, x) leaves x a label.
C24_RenamesInOrderSelfRenameKept ==
  Called("relabel_states", 1) =>
    /\ Len(heap) = Len(Last.pre)
    /\ \A i \in 1..Len(heap) : i # Last.args[1] => heap[i] = Last.pre[i]
    /\ After.start = Before.start /\ After.goals = Before.goals
    /\ RenamedInOrder(Before.states, Last.kw, After.states, FALSE)

\* A list of two pairs, the first of which put a state in the place of
\* another and the second of which renamed a state that was present.
C24_Witness ==
  /\ Called("relabel_states", 1) /\ Len(Last.kw) = 2
  /\ Last.kw[1][1] \in DOMAIN Before.states
  /\ Last.kw[1][2] \in DOMAIN Before.states \ {Last.kw[1][1]}
  /\ Last.kw[2][1] \in DOMAIN RenamePair(Before.states, Last.kw[1][1], Last.kw[1][2])
  /\ Last.kw[2][2] # Last.kw[2][1]

\* The State object (by identity) that label t of M names, and the targets
\* of an action as the State objects they name, with their weights.
NamedTargets(M, action) ==
  {<<M.states[t].sid, action.measure[t]>> : t \in DOMAIN action.measure}

\* The labels a relabeling call writes are new to the model and distinct.
CollisionFree ==
  \/ /\ Last.op = "relabel_states"
     /\ \A i \in 1..Len(Last.kw) : Last.kw[i][2] \notin DOMAIN Before.states
     /\ \A i, j \in 1..Len(Last.kw) : i # j => Last.kw[i][2] # Last.kw[j][2] /\ Last.kw[i][1] # Last.kw[j][1]
  \/ /\ Last.op = "relabel_all_states"
     /\ \A x \in DOMAIN Last.kw : Last.kw[x].val \notin DOMAIN Before.states
     /\ \A x, y \in DOMAIN Last.kw : x # y => Last.kw[x].val # Last.kw[y].val

\* C25: after relabel_states or relabel_all_states with a collision-free
\* renaming of a model whose measures only had state labels as targets, every
\* target of every measure is a state label again and names the State object
\* it named before the call.
C25_RelabelKeepsTargetsClosed ==
  ((Called("relabel_states", 1) \/ Called("relabel_all_states", 1))
     /\ Last.exc = "None" /\ CollisionFree /\ Closed(Before)) =>
    /\ Closed(After)
    /\ \A l \in Labels(After) : \A a \in DOMAIN After.states[l].actions :
         \E l0 \in Labels(Before) :
           /\ Before.states[l0].sid = After.states[l].sid
           /\ NamedTargets(After, After.states[l].actions[a])
                = NamedTargets(Before, Before.states[l0].actions[a])

\* C26: relabel_all_states with a function that is injective on the labels
\* returns, keeps the number of states, and the State object that was
\* labelled x is labelled f(x), also when f(x) is the old label of another
\* state.
C26_InjectiveRelabelKeepsStates ==
  (Called("relabel_all_states", 1)
     /\ \A x, y \in DOMAIN Last.kw : x # y => Last.kw[x].val # Last.kw[y].val) =>
    /\ Last.exc = "None"
    /\ Cardinality(Labels(After)) = Cardinality(Labels(Before))
    /\ \A x \in Labels(Before) :
         /\ Last.kw[x].val \in Labels(After)
         /\ After.states[Last.kw[x].val].sid = Before.states[x].sid

(***************************************************************************)
(* mdp.py: Policy and simulate_policy, and the sessions that simulate.     *)
(***************************************************************************)
\* map(State.label.fget, mdp.goals): the labels of the goal State objects.
GoalLabels(M) ==
  {l \in DOMAIN M.states : \E i \in 1..Len(M.goals) : M.goals[i] = M.states[l].sid}

\* Policy.__init__: the entries of policy_dict for goal states are dropped.
Policy(M, policy_dict) == [l \in DOMAIN policy_dict \ GoalLabels(M) |-> policy_dict[l]]

\* Policy.select_action(state_label): the outcomes the draw of
\* random.choices allows, each the label of the action returned or the
\* exception raised.
select_action(M, policy, state_label) ==
  IF state_label \notin DOMAIN policy THEN {Raise("KeyError")}
  ELSE LET action_probs == policy[state_label]
           drawn == {a \in DOMAIN action_probs : action_probs[a] > 0}
       IN IF DOMAIN action_probs = {} THEN {Raise("IndexError")}
          ELSE IF drawn = {} THEN {Raise("ValueError")}
          ELSE {IF a \in DOMAIN M.states[state_label].actions THEN Ok(a) ELSE Raise("KeyError") :
                  a \in drawn}

\* Action.transition(): the outcomes the draw allows, each the label of the
\* State returned or the exception raised.
transition(M, action) ==
  IF DOMAIN action.measure = {} THEN {Raise("IndexError")}
  ELSE IF reachable_states(action) = {} THEN {Raise("ValueError")}
  ELSE {IF t \in DOMAIN M.states THEN Ok(t) ELSE Raise("KeyError") :
          t \in reachable_states(action)}

\* The goal State objects of M as the list self.goals holds them.
StateObjects(M) == [i \in 1..Len(M.goals) |-> [tag |-> "state", sid |-> M.goals[i]]]

\* `not states[-1].label in goals`: a label is compared with the members of
\* `goals`, which are State objects by default.
label_in(label, goals) == \E i \in 1..Len(goals) : goals[i] = label

\* Largest max_steps a session passes.
MaxSteps == 2

\* The frame of a running simulate_policy(policy, max_steps=max_steps): the
\* locals `goals`, `states` (by label) and `actions` (by label), and where
\* control is.
SimulateFrame(policy, goals, default, max_steps, states, actions, pc) ==
  [policy |-> policy, goals |-> goals, default |-> default, max_steps |-> max_steps,
   states |-> states, actions |-> actions, pc |-> pc]

\* Policy dicts written for M: every state that has actions takes the
\* action `pref` when it has it and any of its actions otherwise.
PolicyDicts(M) ==
  { [l \in {x \in DOMAIN M.states : DOMAIN M.states[x].actions # {}} |->
       IF pref \in DOMAIN M.states[l].actions THEN [a \in {pref} |-> 1]
       ELSE [a \in DOMAIN M.states[l].actions |-> 1]] :
    pref \in {"next", "prev", "any"} }

\* The models simulated: chains, a cycle, and a model with weights 1 : 3 and
\* a zero weight.
SimulateModels ==
  {path_mdp(n).val : n \in 1..MaxN} \cup {cycle_mdp(MaxN).val}
  \cup {MDP(Description(<<Atom(0), Atom(1)>>,
          (Atom(0) :> ("next" :> PairEntry(Atom(0) :> W(1) @@ Atom(1) :> W(3), 2))) @@
          (Atom(1) :> ("prev" :> DistEntry(Atom(0) :> W(0) @@ Atom(1) :> W(2)))))).val}

InitSimulate ==
  /\ \E M \in SimulateModels : heap = <<M>>
  /\ calls = <<>>

Simulating ==
  /\ calls # <<>>
  /\ calls[Len(calls)].op = "simulate_policy"
  /\ calls[Len(calls)].kw.pc = "while"

\* heap[1].simulate_policy(Policy(heap[1], policy_dict), max_steps=max_steps),
\* with the default goals or with goals=[labels of the goal states], up to
\* the while loop.
SimulateStart ==
  \E policy_dict \in PolicyDicts(heap[1]), max_steps \in 0..MaxSteps, default \in BOOLEAN :
    LET M == heap[1]
        start == CHOOSE l \in DOMAIN M.states : M.states[l].sid = M.start
        goals == IF default THEN StateObjects(M) ELSE SetToSeq(GoalLabels(M))
    IN /\ calls = <<>>
       /\ heap' = heap
       /\ calls' = <<Call("simulate_policy", <<1>>,
                          SimulateFrame(Policy(M, policy_dict), goals, default, max_steps,
                                        <<start>>, <<>>, "while"),
                          "None", 0, heap)>>

\* One pass of the while loop of simulate_policy.
SimulateStep ==
  /\ Simulating
  /\ LET c == calls[Len(calls)]
         M == heap[c.args[1]]
         label == c.kw.states[Len(c.kw.states)]
     IN /\ Len(c.kw.states) - 1 <= c.kw.max_steps
        /\ ~label_in(label, c.kw.goals)
        /\ \E a \in select_action(M, c.kw.policy, label) :
             IF a.exc # "None"
             THEN calls' = [calls EXCEPT ![Len(calls)].exc = a.exc,
                                         ![Len(calls)].kw.pc = "raised"]
             ELSE \E outcome \in transition(M, M.states[label].actions[a.val]) :
                    IF outcome.exc # "None"
                    THEN calls' = [calls EXCEPT ![Len(calls)].exc = outcome.exc,
                                                ![Len(calls)].kw.actions = Append(@, a.val),
                                                ![Len(calls)].kw.pc = "raised"]
                    ELSE calls' = [calls EXCEPT ![Len(calls)].kw.actions = Append(@, a.val),
                                                ![Len(calls)].kw.states = Append(@, outcome.val)]
  /\ heap' = heap

\* The loop condition is false: return Path(self, states, actions).
SimulateReturn ==
  /\ Simulating
  /\ LET c == calls[Len(calls)]
     IN ~(Len(c.kw.states) - 1 <= c.kw.max_steps
          /\ ~label_in(c.kw.states[Len(c.kw.states)], c.kw.goals))
  /\ calls' = [calls EXCEPT ![Len(calls)].kw.pc = "return"]
  /\ heap' = heap

NextSimulate ==
  \/ SimulateStart
  \/ SimulateStep
  \/ SimulateReturn

SpecSimulate == InitSimulate /\ [][NextSimulate]_vars

\* C27: simulate_policy with the default start and goals and a Policy built
\* for the model raises nothing, takes no transition out of a goal state (the
\* policy is not asked for an action there), takes at most max_steps
\* transitions, and returns only at a goal state or after max_steps
\* transitions.
C27_SimulationStopsAtGoal ==
  (calls # <<>> /\ Last.op = "simulate_policy" /\ Last.kw.default) =>
    /\ Last.exc = "None"
    /\ \A i \in 1..Len(Last.kw.actions) : Last.kw.states[i] \notin GoalLabels(heap[1])
    /\ Len(Last.kw.actions) <= Last.kw.max_steps
    /\ Last.kw.pc = "return" =>
         \/ Last.kw.states[Len(Last.kw.states)] \in GoalLabels(heap[1])
         \/ Len(Last.kw.actions) = Last.kw.max_steps

(***************************************************************************)
(* More claims about the products.                                         *)
(***************************************************************************)
\* C29: every action of a model returned by cartesian_product for two or
\* three operands has reward 0, whatever the rewards of the operands'
\* actions.
C29_CartesianRewardsZero ==
  \A n \in 2..3 :
    (Called("cartesian_product", n) /\ Last.exc = "None") =>
      \A l \in Labels(Result) : \A a \in DOMAIN Result.states[l].actions :
        Result.states[l].actions[a].reward = 0

\* A product of two operands was returned, and one of its states has actions
\* that were built from a first component with a reward other than 0.
C29_Witness ==
  /\ Called("cartesian_product", 2) /\ Last.exc = "None"
  /\ \E l \in Labels(Result) :
       /\ Result.states[l].actions # EmptyDict
       /\ \E a1 \in DOMAIN Operand(1).states[l.k[1]].actions :
            Operand(1).states[l.k[1]].actions[a1].reward # 0

====
